---------------------------- MODULE Spec2Model ----------------------------
(***************************************************************************)
(* A model of protest-dash: the Express server's batch commit handler      *)
(* (POST /api/batch), the legacy single-file route (POST /api/about), the  *)
(* file read route, and the client's session-scoped edit buffer (App.tsx), *)
(* running against a model of the Git hosting store (objects + one branch  *)
(* ref).                                                                   *)
(*                                                                         *)
(* Conventions.                                                            *)
(*  - A JSON value is a tagged record: [t |-> "array", items |-> <<..>>],  *)
(*    [t |-> "object", title |-> .., sections |-> <<..>>],                 *)
(*    [t |-> "string", s |-> ..], [t |-> "null"], and                      *)
(*    [t |-> "oddobject", title |-> .., sections |-> n] for an object      *)
(*    whose sections is not a list but a string of n >= 1 characters.      *)
(*    Array items and sections are atoms (strings), each standing for the  *)
(*    JSON text of one element as JSON.stringify writes it.                *)
(*  - A JSON text is a sequence of tokens; StringifyJson and ParseJson     *)
(*    convert between values and texts.                                    *)
(*  - A file path is the sequence of its '/'-separated segments.           *)
(*  - One remote-store call is one atomic request/response: a call that    *)
(*    answers with an error has had no effect on the store.                *)
(*  - Every await of a handler is one action: the action is the arrival of *)
(*    the awaited response together with the synchronous code that runs    *)
(*    until the next await (which issues the next call).                   *)
(***************************************************************************)
EXTENDS Integers, Sequences, FiniteSets, TLC

(***************************************************************************)
(* Bounds of the model.                                                    *)
(***************************************************************************)
MaxCalls == 1
MaxExternal == 1
MaxLegacy == 1
MaxEdits == 2
MaxPushes == 2
MaxLoads == 2
MaxLen == 2
MaxSaves == 2
MaxEvents == 2
MaxAdminOps == 2

Handlers == {"h1", "h2"}

(***************************************************************************)
(* JSON values and texts.                                                  *)
(***************************************************************************)
Arr(items) == [t |-> "array", items |-> items]
Doc(title, sections) == [t |-> "object", title |-> title, sections |-> sections]
Str(s) == [t |-> "string", s |-> s]
Null == [t |-> "null"]
OddDoc(title, n) == [t |-> "oddobject", title |-> title, sections |-> n]

\* Array.isArray(v)
IsArray(v) == v.t = "array"

\* typeof v === 'object' (arrays are objects, and so is null)
TypeofObject(v) == v.t \in {"array", "object", "oddobject", "null"}

\* !v, for the values of the model (no empty string, no number)
IsNull(v) == v.t = "null"

\* The decimal digits, for the length of a string in a text.
Digits == 0..9

\* JSON.stringify(value, null, 4): the text of a value.
StringifyJson(v) ==
    CASE v.t = "array"  -> <<"[">> \o v.items \o <<"]">>
      [] v.t = "object" -> <<"{", "title", v.title, "sections", "[">>
                              \o v.sections \o <<"]", "}">>
      [] v.t = "string" -> <<"str", v.s>>
      [] v.t = "null"   -> <<"null">>
      [] v.t = "oddobject" -> <<"{", "title", v.title, "sections", "chars",
                                 ToString(v.sections), "}">>

\* JSON.parse(text): [ok |-> TRUE, value |-> v], or [ok |-> FALSE] when it throws.
ParseJson(txt) ==
    LET n == Len(txt) IN
    IF n >= 2 /\ txt[1] = "[" /\ txt[n] = "]"
      THEN [ok |-> TRUE, value |-> Arr(SubSeq(txt, 2, n - 1))]
    ELSE IF n >= 7 /\ txt[1] = "{" /\ txt[2] = "title" /\ txt[4] = "sections"
                   /\ txt[5] = "[" /\ txt[n - 1] = "]" /\ txt[n] = "}"
      THEN [ok |-> TRUE, value |-> Doc(txt[3], SubSeq(txt, 6, n - 2))]
    ELSE IF n = 7 /\ txt[1] = "{" /\ txt[2] = "title" /\ txt[4] = "sections"
                  /\ txt[5] = "chars" /\ txt[n] = "}"
                  /\ \E k \in Digits : ToString(k) = txt[6]
      THEN [ok |-> TRUE,
            value |-> OddDoc(txt[3], CHOOSE k \in Digits : ToString(k) = txt[6])]
    ELSE IF n = 2 /\ txt[1] = "str"
      THEN [ok |-> TRUE, value |-> Str(txt[2])]
    ELSE IF n = 1 /\ txt[1] = "null"
      THEN [ok |-> TRUE, value |-> Null]
    ELSE [ok |-> FALSE]

(***************************************************************************)
(* The target repository: paths, trees, object ids.                        *)
(***************************************************************************)
FILE_DIR == "data"
LocationsPath == <<FILE_DIR, "locations.json">>
AboutPath == <<FILE_DIR, "about.json">>
LivePath == <<FILE_DIR, "live.json">>
TimesPath == <<FILE_DIR, "times.json">>
Paths == {LocationsPath, AboutPath, LivePath, TimesPath}

\* A tree maps every path to the text of its blob, or to NoFile.
NoFile == <<>>

\* filePath.split('/').pop()
FileNameOf(path) == path[Len(path)]

\* The blob id the store gives a text (content-addressed).
BlobSha(text) == <<"blob">> \o text

\* The default skeleton of a path, by its file name.
DefaultSkeleton(path) ==
    LET fileName == FileNameOf(path) IN
    IF fileName = "locations.json" \/ fileName = "times.json"
         \/ fileName = "repeating-events.json" \/ fileName = "live.json"
      THEN Arr(<<>>)
      ELSE Doc("", <<>>)

(***************************************************************************)
(* generateChangeReport(oldContent, newContent, filePath): the lines of    *)
(* the change report of one file, when it does not throw.                  *)
(***************************************************************************)
\* The plural whatever the number.
PluralAlways(n, one, many) == many

Plural(n, one, many) == IF n = 1 THEN one ELSE many

\* A count that takes every index as modified.
CountEvery(a, b) == Len(a)

\* The number of indices at which two equally long lists differ
\* (JSON.stringify(a[i]) !== JSON.stringify(b[i])).
CountModified(a, b) == Cardinality({i \in 1..Len(a) : <<a[i]>> # <<b[i]>>})

\* oldContent.title || ''
TitleOf(v) == IF v.t \in {"object", "oddobject"} THEN v.title ELSE ""

\* oldContent.sections || [], when that is a list
SectionsOf(v) == IF v.t = "object" THEN v.sections ELSE <<>>

\* (oldContent.sections || []).length
SectionsLength(v) == IF v.t = "oddobject" THEN v.sections ELSE Len(SectionsOf(v))

\* oldSections.filter((s, idx) => JSON.stringify(s) !== JSON.stringify(newSections[idx])).length
\* for lists of one length; an index of a string yields a character, whose
\* text is no section's text.
ModifiedSections(old, new) ==
    IF new.t = "oddobject" THEN Len(SectionsOf(old))
    ELSE CountModified(SectionsOf(old), SectionsOf(new))

\* Whether generateChangeReport throws a TypeError: in the typeof-object
\* branch, the read of .title of null, or the call of .filter on sections
\* that are a string.
generateChangeReportThrows(oldContent, newContent, filePath) ==
    /\ ~(IsArray(oldContent) /\ IsArray(newContent))
    /\ TypeofObject(oldContent) /\ TypeofObject(newContent)
    /\ \/ IsNull(oldContent)
       \/ IsNull(newContent)
       \/ /\ oldContent.t = "oddobject"
          /\ SectionsLength(oldContent) = SectionsLength(newContent)

\* changes.join(', ')
RECURSIVE JoinWith(_, _)
JoinWith(parts, sep) ==
    IF Len(parts) = 0 THEN ""
    ELSE IF Len(parts) = 1 THEN parts[1]
    ELSE parts[1] \o sep \o JoinWith(Tail(parts), sep)

generateChangeReport(oldContent, newContent, filePath) ==
    LET fileName == FileNameOf(filePath)
        report ==
          IF IsArray(oldContent) /\ IsArray(newContent) THEN
            LET oldCount == Len(oldContent.items)
                newCount == Len(newContent.items)
            IN IF oldCount # newCount THEN
                 << "  - " \o fileName \o ": " \o ToString(oldCount) \o " -> "
                      \o ToString(newCount) \o " entries",
                    IF oldCount < newCount
                      THEN "    * Added " \o ToString(newCount - oldCount) \o " new "
                             \o Plural(newCount - oldCount, "entry", "entries")
                      ELSE "    * Removed " \o ToString(oldCount - newCount) \o " "
                             \o Plural(oldCount - newCount, "entry", "entries") >>
               ELSE
                 LET modified == CountModified(oldContent.items, newContent.items)
                 IN IF modified > 0
                      THEN << "  - " \o fileName \o ": Modified " \o ToString(modified)
                                \o " " \o Plural(modified, "entry", "entries") >>
                      ELSE << "  - " \o fileName \o ": No changes detected" >>
          ELSE IF TypeofObject(oldContent) /\ TypeofObject(newContent) THEN
            LET oldTitle == TitleOf(oldContent)
                newTitle == TitleOf(newContent)
                oldLength == SectionsLength(oldContent)
                newLength == SectionsLength(newContent)
                c1 == IF oldTitle # newTitle THEN <<"title">> ELSE <<>>
                c2 == IF oldLength # newLength
                        THEN << ToString(oldLength) \o " -> "
                                  \o ToString(newLength) \o " sections" >>
                        ELSE LET k == ModifiedSections(oldContent, newContent)
                             IN IF k > 0
                                  THEN << ToString(k) \o " modified "
                                            \o Plural(k, "section", "sections") >>
                                  ELSE <<>>
                changes == c1 \o c2
            IN IF Len(changes) > 0
                 THEN << "  - " \o fileName \o ": " \o JoinWith(changes, ", ") >>
                 ELSE << "  - " \o fileName \o ": No changes detected" >>
          ELSE <<>>
    IN IF Len(report) > 0 THEN report ELSE << "  - " \o fileName \o ": Updated" >>


(***************************************************************************)
(* State.                                                                  *)
(*   commits      the commit objects of the store; a commit id is its      *)
(*                index; [tree, parents, message]                          *)
(*   branch       the commit id heads/BRANCH points to                     *)
(*   refLog       history: every ref-update request the store processed,   *)
(*                [by, tip, from, to, ok] (from: the ref before it)        *)
(*   hs           the in-flight POST /api/batch calls, one per slot        *)
(*   legacy       the in-flight POST /api/about call                       *)
(*   nCalls, nExternal, nLegacy   counters that bound the run              *)
(*   auth         users.json, the sessions that are logged in, and a       *)
(*                counter that bounds the admin operations                 *)
(*   stateByFile, pushing, push, nEdits, nPushes   the client (App.tsx)    *)
(*   aboutEditor  the AboutEditor component: its state, and as history     *)
(*                how its saves ended                                      *)
(*   ui           the view, the selected file, and the fetches the effects *)
(*                of App.tsx have in flight                                *)
(*   fileCall     the in-flight GET /api/file/:name call                   *)
(*   load         the client's load of one file (the effect of App.tsx)    *)
(*   nLoads       a counter that bounds the run                            *)
(*   probe        one application of a pure function of the server: its    *)
(*                inputs and what it returned                              *)
(*   locs         the locations.json buffer as the location editors see    *)
(*                it, the editor that is mounted, and the Dashboard's draft *)
(*   polling      the polling effects of the ActionsStatus component, one  *)
(*                per mount                                                *)
(***************************************************************************)
VARIABLES commits, branch, refLog, hs, legacy, nCalls, nExternal, nLegacy, auth,
          stateByFile, pushing, push, nEdits, nPushes, aboutEditor, ui,
          fileCall, load, nLoads, probe, locs, polling

storeVars == <<commits, branch, refLog>>
serverVars == <<hs, legacy, nCalls, nExternal, nLegacy, auth>>
clientVars == <<stateByFile, pushing, push, nEdits, nPushes, aboutEditor, ui>>
readVars == <<fileCall, load, nLoads>>
pageVars == <<locs, polling>>
vars == <<commits, branch, refLog, hs, legacy, nCalls, nExternal, nLegacy, auth,
          stateByFile, pushing, push, nEdits, nPushes, aboutEditor, ui,
          fileCall, load, nLoads, probe, locs, polling>>

(***************************************************************************)
(* The store (the Git hosting API), as the handlers use it.                *)
(***************************************************************************)
EmptyTree == [p \in Paths |-> NoFile]

\* The text of the blob a tree holds at a path (NoFile if none).
BlobText(sha) == IF sha = NoFile THEN NoFile ELSE Tail(sha)

RECURSIVE AncestorsOrSelf(_, _)
AncestorsOrSelf(cs, c) ==
    IF c = 0 THEN {}
    ELSE {c} \cup UNION {AncestorsOrSelf(cs, cs[c].parents[i]) : i \in 1..Len(cs[c].parents)}

\* A ref update that is always accepted (force: true).
ForcedUpdate(cs, current, new) == TRUE

\* A ref update that is never accepted.
RejectedUpdate(cs, current, new) == FALSE

\* PATCH git/refs with force:false is accepted iff it is a fast forward:
\* the ref's current commit is the new commit or one of its ancestors.
IsFastForward(cs, current, new) == current \in AncestorsOrSelf(cs, new)

\* A tree creation that takes only the first entry.
StoreCreateTreeFirstOnly(baseTree, entries) ==
    [p \in Paths |-> IF entries[1].path = p THEN entries[1].sha ELSE baseTree[p]]

\* A tree creation that ignores the base tree.
StoreCreateTreeNoBase(baseTree, entries) ==
    [p \in Paths |->
       IF \E i \in 1..Len(entries) : entries[i].path = p
         THEN (CHOOSE e \in {entries[i] : i \in 1..Len(entries)} : e.path = p).sha
         ELSE NoFile]

\* POST git/trees {base_tree, tree: entries}: the base tree with the entries'
\* paths replaced or added.
StoreCreateTree(baseTree, entries) ==
    [p \in Paths |->
       IF \E i \in 1..Len(entries) : entries[i].path = p
         THEN LET i == CHOOSE j \in 1..Len(entries) : entries[j].path = p
              IN entries[i].sha
         ELSE baseTree[p]]

\* GET contents/<path>?ref=BRANCH at the current tip: the blob, or 404.
StoreGetContents(path) ==
    LET tree == commits[branch].tree IN
    IF path \in Paths /\ tree[path] # NoFile
      THEN [found |-> TRUE, sha |-> tree[path], text |-> BlobText(tree[path])]
      ELSE [found |-> FALSE]

\* An axios error with a response (a status that is not 2xx, and the body),
\* and an error without one (no answer, or an exception of the handler's
\* own code).
HttpError(status, data) ==
    [response |-> TRUE, status |-> status, data |-> data,
     message |-> "Request failed with status code " \o ToString(status)]

LocalError(message) ==
    [response |-> FALSE, status |-> 0, data |-> "", message |-> message]

\* What an upstream call fails with: an HTTP error response with a body or
\* with an empty body, or no response.
UpstreamFailures ==
    { HttpError(503, "upstream error"),
      HttpError(502, ""),
      LocalError("socket hang up") }

\* err.response?.status || 500
CatchStatus(err) == IF err.response THEN err.status ELSE 500

\* err.response?.data || { message: err.message }
CatchDetails(err) ==
    IF err.response /\ err.data # "" THEN [body |-> err.data]
                                     ELSE [message |-> err.message]

\* The initial repository: locations.json and about.json exist, live.json
\* does not; times.json holds a time that has passed (tPast) and a time to
\* come (tNext).
InitialTree ==
    [p \in Paths |->
       IF p = LocationsPath THEN BlobSha(StringifyJson(Arr(<<"e1">>)))
       ELSE IF p = AboutPath THEN BlobSha(StringifyJson(Doc("T1", <<"s1">>)))
       ELSE IF p = TimesPath THEN BlobSha(StringifyJson(Arr(<<"tPast", "tNext">>)))
       ELSE NoFile]

(***************************************************************************)
(* users.json and the session user of a request.                           *)
(***************************************************************************)
UsersFile ==
    { [id |-> "u1", role |-> "admin", anonHash |-> "a1b2c3d4e5f60718"],
      [id |-> "u2", role |-> "editor", anonHash |-> ""] }

\* A tag that is the user's Discord id.
AnonOfUserId(userId) == userId

UserIds == {"u1", "u2"}

\* crypto.randomBytes(8).toString('hex'): any 16 hex digits.
AnonHashes == {"a1b2c3d4e5f60718", "0f1e2d3c4b5a6978"}

InitialAuth == [users |-> UsersFile, sessions |-> {}, nOps |-> 0]

\* getUserRecord(id) is not null; the record it returns.
Listed(users, id) == \E u \in users : u.id = id

RecordOf(users, id) == CHOOSE u \in users : u.id = id

\* getUserRecord(userId)?.anonHash || 'unknown'
AnonOf(userId) ==
    IF \E u \in auth.users : u.id = userId /\ u.anonHash # ""
      THEN RecordOf(auth.users, userId).anonHash
      ELSE "unknown"

\* upsertUserProfile: the record of the id keeps its anonHash or gets a
\* generated one; an id with no record gets a record.
upsertUserProfile(users, id, generated) ==
    IF Listed(users, id)
      THEN {IF u.id = id THEN [u EXCEPT !.anonHash = IF @ # "" THEN @ ELSE generated]
                         ELSE u : u \in users}
      ELSE users \cup {[id |-> id, role |-> "editor", anonHash |-> generated]}

\* What the admin routes that write read of users.json:
\* loadUsersFile().map(u => ({id: String(u.id), role: ...})).
IdsAndRoles(users) == {[id |-> u.id, role |-> u.role, anonHash |-> ""] : u \in users}

\* The Discord strategy's verify callback and req.logIn: a user with a
\* record gets the profile stored and a session; a user without one none.
Login(id, generated) ==
    /\ Listed(auth.users, id)
    /\ id \notin auth.sessions
    /\ auth' = [auth EXCEPT !.users = upsertUserProfile(@, id, generated),
                            !.sessions = @ \cup {id}]
    /\ UNCHANGED <<storeVars, hs, legacy, nCalls, nExternal, nLegacy, clientVars,
                   readVars, probe, pageVars>>

\* POST /api/auth/logout
Logout(id) ==
    /\ id \in auth.sessions
    /\ auth' = [auth EXCEPT !.sessions = @ \ {id}]
    /\ UNCHANGED <<storeVars, hs, legacy, nCalls, nExternal, nLegacy, clientVars,
                   readVars, probe, pageVars>>

\* requireAuth and requireAdmin: a session whose user has an admin record now.
IsAdminSession(actor) ==
    /\ actor \in auth.sessions
    /\ Listed(auth.users, actor)
    /\ RecordOf(auth.users, actor).role = "admin"

\* POST /api/admin/users {id, role}
AdminAddUser(actor, id, role) ==
    /\ IsAdminSession(actor)
    /\ auth.nOps < MaxAdminOps
    /\ ~Listed(auth.users, id)
    /\ auth' = [auth EXCEPT
                  !.users = IdsAndRoles(@) \cup {[id |-> id, role |-> role, anonHash |-> ""]},
                  !.nOps = @ + 1]
    /\ UNCHANGED <<storeVars, hs, legacy, nCalls, nExternal, nLegacy, clientVars,
                   readVars, probe, pageVars>>

\* PUT /api/admin/users/:id {role}
AdminUpdateRole(actor, id, role) ==
    /\ IsAdminSession(actor)
    /\ auth.nOps < MaxAdminOps
    /\ Listed(auth.users, id)
    /\ auth' = [auth EXCEPT
                  !.users = {IF u.id = id THEN [u EXCEPT !.role = role] ELSE u :
                               u \in IdsAndRoles(@)},
                  !.nOps = @ + 1]
    /\ UNCHANGED <<storeVars, hs, legacy, nCalls, nExternal, nLegacy, clientVars,
                   readVars, probe, pageVars>>

\* DELETE /api/admin/users/:id
AdminRemoveUser(actor, id) ==
    /\ IsAdminSession(actor)
    /\ auth.nOps < MaxAdminOps
    /\ Listed(auth.users, id)
    /\ auth' = [auth EXCEPT !.users = {u \in IdsAndRoles(@) : u.id # id},
                            !.nOps = @ + 1]
    /\ UNCHANGED <<storeVars, hs, legacy, nCalls, nExternal, nLegacy, clientVars,
                   readVars, probe, pageVars>>

(***************************************************************************)
(* The requests the callers send to POST /api/batch: [user, body].  A body *)
(* may lack "files" or "commitMessage"; "files" is any JSON value; a file  *)
(* entry may lack "path".  No two entries of one request share a path.     *)
(***************************************************************************)
BatchRequests ==
    { [user |-> "u1", body |-> [commitMessage |-> "msg"]],
      [user |-> "u1", body |-> [files |-> Str("x"), commitMessage |-> "msg"]],
      [user |-> "u2", body |-> [files |-> Arr(<<>>), commitMessage |-> "msg"]],
      [user |-> "u1", body |->
          [files |-> Arr(<< [path |-> LocationsPath, content |-> Arr(<<"e1", "e2">>)] >>),
           commitMessage |-> "msg"]],
      [user |-> "u2", body |->
          [files |-> Arr(<< [path |-> LocationsPath, content |-> Arr(<<"e1">>)],
                            [path |-> LivePath, content |-> Arr(<<"v1">>)] >>)]],
      [user |-> "u1", body |->
          [files |-> Arr(<< [path |-> AboutPath, content |-> Doc("T2", <<"s1">>)] >>),
           commitMessage |-> "msg"]],
      [user |-> "u1", body |->
          [files |-> Arr(<< [path |-> AboutPath, content |-> Str("oops")] >>),
           commitMessage |-> "msg"]],
      [user |-> "u1", body |->
          [files |-> Arr(<< [content |-> Arr(<<"e1">>)] >>),
           commitMessage |-> "msg"]],
      [user |-> "u1", body |->
          [files |-> Arr(<< [path |-> AboutPath, content |-> Null] >>),
           commitMessage |-> "msg"]] }

HasField(rec, f) == f \in DOMAIN rec

\* A check that lets an empty list through.
FilesIsList(body) == HasField(body, "files") /\ IsArray(body.files)

\* Array.isArray(files) && files.length > 0
FilesProvided(body) ==
    HasField(body, "files") /\ IsArray(body.files) /\ Len(body.files.items) > 0


(***************************************************************************)
(* POST /api/batch.  The locals of one call, and its steps.                *)
(*   calls     the remote calls the call has issued so far, in order       *)
(*   fetched   per file, how its old-content fetch ended                   *)
(*   failedAt  the step whose failure took the call to its catch block     *)
(*   err       the error the catch block caught                            *)
(***************************************************************************)
IdleCall ==
    [pc |-> "idle", id |-> 0, user |-> "", body |-> [commitMessage |-> ""],
     anon |-> "", latestCommitSha |-> 0, baseTreeSha |-> EmptyTree,
     fetched |-> <<>>, oldContents |-> <<>>, changeReports |-> <<>>,
     blobs |-> <<>>, newTreeSha |-> EmptyTree, fullCommitMessage |-> "",
     newCommitSha |-> 0, calls |-> <<>>, failedAt |-> "none",
     err |-> LocalError(""), resp |-> [status |-> 0]]

FilesOf(call) == call.body.files.items

\* A catch block that answers 500 whatever it caught.
BatchCatchRespAlways500(err) ==
    [status |-> 500, error |-> "Batch update failed", details |-> CatchDetails(err)]

\* The catch block: err.response?.status || 500, err.response?.data || {message}.
BatchCatchResp(err) ==
    [status |-> CatchStatus(err),
     error |-> "Batch update failed", details |-> CatchDetails(err)]

\* A catch block that starts the call over instead of answering.
BatchCatchRetry(h, err, at) ==
    hs' = [hs EXCEPT ![h].pc = "getRef", ![h].failedAt = at,
                     ![h].calls = Append(@, "getRef")]

BatchCatch(h, err, at) ==
    hs' = [hs EXCEPT ![h].pc = "done", ![h].failedAt = at, ![h].err = err,
                     ![h].resp = BatchCatchResp(err)]

\* const { files, commitMessage } = req.body; the 400 check; the user's tag;
\* issue GET git/ref/heads/BRANCH.
BatchReceive(h, r, maxCalls) ==
    /\ hs[h].pc = "idle"
    /\ nCalls < maxCalls
    /\ nCalls' = nCalls + 1
    /\ IF ~FilesProvided(r.body)
         THEN hs' = [hs EXCEPT ![h] =
                 [IdleCall EXCEPT !.pc = "done", !.id = nCalls + 1, !.user = r.user,
                                  !.body = r.body, !.failedAt = "validate",
                                  !.resp = [status |-> 400, error |-> "No files provided"]]]
         ELSE hs' = [hs EXCEPT ![h] =
                 [IdleCall EXCEPT !.pc = "getRef", !.id = nCalls + 1, !.user = r.user,
                                  !.body = r.body, !.anon = AnonOf(r.user),
                                  !.calls = <<"getRef">>]]
    /\ UNCHANGED <<storeVars, legacy, nExternal, nLegacy, clientVars, readVars, probe, auth, pageVars>>

\* requireAuth in front of the handler: a request with no session is
\* answered 401; a request with a session reaches the handler.
BatchOfSession(h, r, maxCalls) ==
    IF r.user \in auth.sessions
      THEN BatchReceive(h, r, maxCalls)
      ELSE /\ hs[h].pc = "idle"
           /\ nCalls < maxCalls
           /\ nCalls' = nCalls + 1
           /\ hs' = [hs EXCEPT ![h] =
                  [IdleCall EXCEPT !.pc = "done", !.id = nCalls + 1, !.user = r.user,
                                   !.body = r.body, !.failedAt = "auth",
                                   !.resp = [status |-> 401, error |-> "Unauthorized"]]]
           /\ UNCHANGED <<storeVars, legacy, nExternal, nLegacy, clientVars, readVars,
                          probe, auth, pageVars>>

\* 1) the ref's answer: latestCommitSha; issue GET git/commits/<sha>.
BatchGetRef(h) ==
    /\ hs[h].pc = "getRef"
    /\ \/ hs' = [hs EXCEPT ![h].pc = "getCommit", ![h].latestCommitSha = branch,
                           ![h].calls = Append(@, "getCommit")]
       \/ \E err \in UpstreamFailures : BatchCatch(h, err, "getRef")
    /\ UNCHANGED <<storeVars, legacy, nCalls, nExternal, nLegacy, clientVars, readVars, probe, auth, pageVars>>

\* 2) the commit's answer: baseTreeSha; issue one GET contents per file.
BatchGetCommit(h) ==
    /\ hs[h].pc = "getCommit"
    /\ \/ hs' = [hs EXCEPT ![h].pc = "oldContents",
                           ![h].baseTreeSha = commits[hs[h].latestCommitSha].tree,
                           ![h].calls = @ \o [i \in 1..Len(FilesOf(hs[h])) |-> "getContents"]]
       \/ \E err \in UpstreamFailures : BatchCatch(h, err, "getCommit")
    /\ UNCHANGED <<storeVars, legacy, nCalls, nExternal, nLegacy, clientVars, readVars, probe, auth, pageVars>>

\* How the old-content fetch of one file ends: "error" (the call failed
\* upstream), "notfound" (404), "badjson" (JSON.parse threw) or "ok".
\* encodeURIComponent(undefined) asks for the path "undefined".
FetchOutcome(file, upstreamFails) ==
    IF upstreamFails THEN "error"
    ELSE LET got == StoreGetContents(IF HasField(file, "path") THEN file.path
                                                               ELSE <<"undefined">>)
         IN IF ~got.found THEN "notfound"
            ELSE IF ~ParseJson(got.text).ok THEN "badjson"
            ELSE "ok"

\* An inner catch that falls back to the empty list whatever the file's name.
OldContentAlwaysList(file, outcome) ==
    IF outcome = "ok"
      THEN [path |-> file.path, content |-> ParseJson(StoreGetContents(file.path).text).value]
      ELSE [path |-> file.path, content |-> Arr(<<>>)]

\* One element of oldContents: the parsed remote content, or in the inner
\* catch the default skeleton of the file's name.
OldContentOf(file, outcome) ==
    IF outcome = "ok"
      THEN [path |-> file.path, content |-> ParseJson(StoreGetContents(file.path).text).value]
      ELSE [path |-> file.path, content |-> DefaultSkeleton(file.path)]

\* Whether building this file's oldContents element or report throws a
\* TypeError (file.path.split on an undefined path).
OldContentThrows(file) == ~HasField(file, "path")

\* A loop that reports the first file only.
ChangeReportsFirstOnly(files, olds) ==
    generateChangeReport(olds[1].content, files[1].content, files[1].path)

\* for (i ...) changeReports.push(...generateChangeReport(old, file.content, file.path))
RECURSIVE ChangeReportsOf(_, _)
ChangeReportsOf(files, olds) ==
    IF Len(files) = 0 THEN <<>>
    ELSE generateChangeReport(olds[1].content, files[1].content, files[1].path)
           \o ChangeReportsOf(Tail(files), Tail(olds))

\* Whether the loop of the change reports throws.
ReportThrows(files, olds) ==
    \E i \in 1..Len(files) :
       generateChangeReportThrows(olds[i].content, files[i].content, files[i].path)

\* Promise.all of the old-content fetches has settled; the change reports;
\* issue one POST git/blobs per file.
BatchOldContents(h) ==
    /\ hs[h].pc = "oldContents"
    /\ LET files == FilesOf(hs[h]) IN
       \E failing \in SUBSET (1..Len(files)) :
         LET outcomes == [i \in 1..Len(files) |-> FetchOutcome(files[i], i \in failing)]
         IN IF \E i \in 1..Len(files) : OldContentThrows(files[i])
              THEN hs' = [hs EXCEPT ![h].pc = "done", ![h].failedAt = "oldContents",
                             ![h].fetched = outcomes,
                             ![h].err = LocalError("Cannot read properties of undefined"),
                             ![h].resp = BatchCatchResp(
                                 LocalError("Cannot read properties of undefined"))]
              ELSE LET olds == [i \in 1..Len(files) |-> OldContentOf(files[i], outcomes[i])]
                   IN IF ReportThrows(files, olds)
                        THEN hs' = [hs EXCEPT ![h].pc = "done", ![h].failedAt = "report",
                                       ![h].fetched = outcomes,
                                       ![h].oldContents = olds,
                                       ![h].err = LocalError("Cannot read properties of null"),
                                       ![h].resp = BatchCatchResp(
                                           LocalError("Cannot read properties of null"))]
                        ELSE hs' = [hs EXCEPT ![h].pc = "blobs",
                                       ![h].fetched = outcomes,
                                       ![h].oldContents = olds,
                                       ![h].changeReports = ChangeReportsOf(files, olds),
                                       ![h].blobs = [i \in 1..Len(files) |-> NoFile],
                                       ![h].calls = @ \o [i \in 1..Len(files) |-> "postBlob"]]
    /\ UNCHANGED <<storeVars, legacy, nCalls, nExternal, nLegacy, clientVars, readVars, probe, auth, pageVars>>

\* A blob step that issues POST git/trees at the first blob's answer.
BatchBlobDoneEager(h, i) ==
    /\ hs[h].pc = "blobs"
    /\ i \in 1..Len(hs[h].blobs)
    /\ hs[h].blobs[i] = NoFile
    /\ hs' = [hs EXCEPT ![h].blobs[i] = BlobSha(StringifyJson(FilesOf(hs[h])[i].content)),
                        ![h].pc = "tree",
                        ![h].calls = Append(@, "postTree")]
    /\ UNCHANGED <<storeVars, legacy, nCalls, nExternal, nLegacy, clientVars, readVars, probe, auth, pageVars>>

\* 3) one blob's answer; when it is the last one, issue POST git/trees.
BatchBlobDone(h, i) ==
    /\ hs[h].pc = "blobs"
    /\ i \in 1..Len(hs[h].blobs)
    /\ hs[h].blobs[i] = NoFile
    /\ LET sha == BlobSha(StringifyJson(FilesOf(hs[h])[i].content))
           done == \A j \in 1..Len(hs[h].blobs) : j # i => hs[h].blobs[j] # NoFile
       IN hs' = [hs EXCEPT ![h].blobs[i] = sha,
                           ![h].pc = IF done THEN "tree" ELSE "blobs",
                           ![h].calls = IF done THEN Append(@, "postTree") ELSE @]
    /\ UNCHANGED <<storeVars, legacy, nCalls, nExternal, nLegacy, clientVars, readVars, probe, auth, pageVars>>

BatchBlobFail(h, i) ==
    /\ hs[h].pc = "blobs"
    /\ i \in 1..Len(hs[h].blobs)
    /\ hs[h].blobs[i] = NoFile
    /\ \E err \in UpstreamFailures : BatchCatch(h, err, "blobs")
    /\ UNCHANGED <<storeVars, legacy, nCalls, nExternal, nLegacy, clientVars, readVars, probe, auth, pageVars>>

\* The tree entries: blobs.map(b => ({path, mode, type, sha})).
TreeEntriesOf(call) ==
    [i \in 1..Len(call.blobs) |-> [path |-> FilesOf(call)[i].path, sha |-> call.blobs[i]]]

\* A message without the 'Changes:' header line.
FullCommitMessageNoHeader(body, anon, changeReports) ==
    (IF HasField(body, "commitMessage") /\ body.commitMessage # ""
       THEN body.commitMessage ELSE "Update files via dashboard")
    \o "\n\nUser: " \o anon \o "\n\n" \o JoinWith(changeReports, "\n")

\* commitMessage || default, the user line, the 'Changes:' block.
FullCommitMessage(body, anon, changeReports) ==
    (IF HasField(body, "commitMessage") /\ body.commitMessage # ""
       THEN body.commitMessage ELSE "Update files via dashboard")
    \o "\n\nUser: " \o anon
    \o (IF Len(changeReports) > 0
          THEN "\n\nChanges:" \o "\n" \o JoinWith(changeReports, "\n")
          ELSE "")

\* 4) the tree's answer: newTreeSha; the commit message; issue POST git/commits.
BatchTree(h) ==
    /\ hs[h].pc = "tree"
    /\ \/ hs' = [hs EXCEPT ![h].pc = "commit",
                   ![h].newTreeSha = StoreCreateTree(hs[h].baseTreeSha, TreeEntriesOf(hs[h])),
                   ![h].fullCommitMessage =
                       FullCommitMessage(hs[h].body, hs[h].anon, hs[h].changeReports),
                   ![h].calls = Append(@, "postCommit")]
       \/ \E err \in UpstreamFailures : BatchCatch(h, err, "tree")
    /\ UNCHANGED <<storeVars, legacy, nCalls, nExternal, nLegacy, clientVars, readVars, probe, auth, pageVars>>

\* A commit creation that also moves the branch to the new commit.
BatchCommitMovesRef(h) ==
    /\ hs[h].pc = "commit"
    /\ commits' = Append(commits, [tree |-> hs[h].newTreeSha,
                                   parents |-> <<hs[h].latestCommitSha>>,
                                   message |-> hs[h].fullCommitMessage])
    /\ branch' = Len(commits) + 1
    /\ hs' = [hs EXCEPT ![h].pc = "updateRef",
                        ![h].newCommitSha = Len(commits) + 1,
                        ![h].calls = Append(@, "patchRef")]
    /\ UNCHANGED <<refLog, legacy, nCalls, nExternal, nLegacy, clientVars, readVars, probe, auth, pageVars>>

\* A commit creation whose parent is the branch's tip at that moment.
BatchCommitOnCurrentTip(h) ==
    /\ hs[h].pc = "commit"
    /\ commits' = Append(commits, [tree |-> hs[h].newTreeSha,
                                   parents |-> <<branch>>,
                                   message |-> hs[h].fullCommitMessage])
    /\ hs' = [hs EXCEPT ![h].pc = "updateRef",
                        ![h].newCommitSha = Len(commits) + 1,
                        ![h].calls = Append(@, "patchRef")]
    /\ UNCHANGED <<branch, refLog, legacy, nCalls, nExternal, nLegacy, clientVars, readVars, probe,
                   auth, pageVars>>

\* 5) the commit's answer: newCommitSha; issue PATCH git/refs/heads/BRANCH.
BatchCommit(h) ==
    /\ hs[h].pc = "commit"
    /\ \/ /\ commits' = Append(commits, [tree |-> hs[h].newTreeSha,
                                         parents |-> <<hs[h].latestCommitSha>>,
                                         message |-> hs[h].fullCommitMessage])
          /\ hs' = [hs EXCEPT ![h].pc = "updateRef",
                              ![h].newCommitSha = Len(commits) + 1,
                              ![h].calls = Append(@, "patchRef")]
       \/ /\ \E err \in UpstreamFailures : BatchCatch(h, err, "commit")
          /\ UNCHANGED commits
    /\ UNCHANGED <<branch, refLog, legacy, nCalls, nExternal, nLegacy, clientVars, readVars, probe,
                   auth, pageVars>>

\* 6) the ref update's answer ({sha, force: false}); the response.
BatchUpdateRef(h) ==
    /\ hs[h].pc = "updateRef"
    /\ LET new == hs[h].newCommitSha
           ev(ok) == [by |-> [kind |-> "batch", id |-> hs[h].id],
                      tip |-> hs[h].latestCommitSha, from |-> branch, to |-> new,
                      ok |-> ok]
       IN \/ /\ IsFastForward(commits, branch, new)
             /\ branch' = new
             /\ refLog' = Append(refLog, ev(TRUE))
             /\ hs' = [hs EXCEPT ![h].pc = "done",
                          ![h].resp = [status |-> 200, ok |-> TRUE, commitSha |-> new]]
          \/ /\ ~IsFastForward(commits, branch, new)
             /\ refLog' = Append(refLog, ev(FALSE))
             /\ BatchCatch(h, HttpError(422, "Update is not a fast forward"), "updateRef")
             /\ UNCHANGED branch
          \/ /\ \E err \in UpstreamFailures : BatchCatch(h, err, "updateRef")
             /\ UNCHANGED <<branch, refLog, pageVars>>
    /\ UNCHANGED <<commits, legacy, nCalls, nExternal, nLegacy, clientVars, readVars, probe, auth, pageVars>>

\* The response has been sent; the slot takes the next request.
BatchFinish(h) ==
    /\ hs[h].pc = "done"
    /\ hs' = [hs EXCEPT ![h] = IdleCall]
    /\ UNCHANGED <<storeVars, legacy, nCalls, nExternal, nLegacy, clientVars, readVars, probe, auth, pageVars>>


(***************************************************************************)
(* POST /api/about, the legacy single-file update: a PUT on the contents   *)
(* API, which makes a commit on the branch and moves the branch to it.     *)
(***************************************************************************)
IdleLegacy == [pc |-> "idle", body |-> [content |-> Str("")], currentSha |-> NoFile,
               resp |-> [status |-> 0]]

\* The bodies the callers send: {content, commitMessage?, baseSha?}.
LegacyRequests ==
    { [content |-> Doc("T3", <<"s1">>)],
      [content |-> Doc("T3", <<"s1">>),
       baseSha |-> BlobSha(StringifyJson(Doc("T1", <<"s1">>)))],
      [content |-> Str("oops")] }

LegacyCatch(err) ==
    legacy' = [legacy EXCEPT !.pc = "done",
                 !.resp = [status |-> CatchStatus(err),
                           error |-> "Failed to update about.json",
                           details |-> CatchDetails(err)]]

\* The payload check; baseSha, or issue the GET that fetches the current sha.
LegacyAccept(b) ==
    IF IsNull(b.content) \/ ~TypeofObject(b.content)
      THEN legacy' = [IdleLegacy EXCEPT !.pc = "done", !.body = b,
                        !.resp = [status |-> 400, error |-> "Invalid content payload"]]
      ELSE IF HasField(b, "baseSha")
        THEN legacy' = [IdleLegacy EXCEPT !.pc = "put", !.body = b,
                                          !.currentSha = b.baseSha]
        ELSE legacy' = [IdleLegacy EXCEPT !.pc = "head", !.body = b]

\* POST /api/about arrives from a caller that is not the AboutEditor.
LegacyReceive(b) ==
    /\ legacy.pc = "idle"
    /\ nLegacy < MaxLegacy
    /\ nLegacy' = nLegacy + 1
    /\ LegacyAccept(b)
    /\ UNCHANGED <<storeVars, hs, nCalls, nExternal, clientVars, readVars, probe, auth, pageVars>>

\* The answer of the GET: head.data.sha; issue the PUT.
LegacyHead ==
    /\ legacy.pc = "head"
    /\ LET got == StoreGetContents(AboutPath)
       IN \/ /\ got.found
             /\ legacy' = [legacy EXCEPT !.pc = "put", !.currentSha = got.sha]
          \/ /\ ~got.found
             /\ LegacyCatch(HttpError(404, "Not Found"))
          \/ \E err \in UpstreamFailures : LegacyCatch(err)
    /\ UNCHANGED <<storeVars, hs, nCalls, nExternal, nLegacy, clientVars, readVars, probe, auth, pageVars>>

\* The answer of the PUT {message, content, sha, branch}: the store accepts
\* it iff sha is the file's blob at the branch tip, and then commits the new
\* content on top of the tip and moves the branch.
LegacyPut ==
    /\ legacy.pc = "put"
    /\ LET got == StoreGetContents(AboutPath)
           text == StringifyJson(legacy.body.content)
           new == Len(commits) + 1
       IN \/ /\ got.found /\ got.sha = legacy.currentSha
             /\ commits' = Append(commits,
                   [tree |-> [commits[branch].tree EXCEPT ![AboutPath] = BlobSha(text)],
                    parents |-> <<branch>>,
                    message |-> "Update about.json via dashboard"])
             /\ branch' = new
             /\ refLog' = Append(refLog, [by |-> [kind |-> "legacy", id |-> nLegacy],
                                          tip |-> branch, from |-> branch, to |-> new,
                                          ok |-> TRUE])
             /\ legacy' = [legacy EXCEPT !.pc = "done",
                              !.resp = [status |-> 200, ok |-> TRUE, commit |-> new]]
          \/ /\ ~(got.found /\ got.sha = legacy.currentSha)
             /\ LegacyCatch(HttpError(409, "about.json does not match sha"))
             /\ UNCHANGED storeVars
          \/ /\ \E err \in UpstreamFailures : LegacyCatch(err)
             /\ UNCHANGED storeVars
    /\ UNCHANGED <<hs, nCalls, nExternal, nLegacy, clientVars, readVars, probe, auth, pageVars>>

\* fetchJsonFile(path): {sha, content}, or the error it throws (the store's
\* 404, or JSON.parse's SyntaxError, which has no response).
FetchJsonFile(path) ==
    LET got == StoreGetContents(path) IN
    IF ~got.found
      THEN [ok |-> FALSE, err |-> HttpError(404, "Not Found")]
    ELSE IF ~ParseJson(got.text).ok
      THEN [ok |-> FALSE, err |-> LocalError("Unexpected token")]
    ELSE [ok |-> TRUE, sha |-> got.sha, content |-> ParseJson(got.text).value]

\* GET /api/about (the legacy read route): issue the fetch of about.json.
AboutGetReceive ==
    /\ legacy.pc = "idle"
    /\ nLegacy < MaxLegacy
    /\ nLegacy' = nLegacy + 1
    /\ legacy' = [IdleLegacy EXCEPT !.pc = "get"]
    /\ UNCHANGED <<storeVars, hs, nCalls, nExternal, clientVars, readVars, probe, auth, pageVars>>

\* The answer of the fetch: the file's {sha, content}, or the error.
AboutGetAnswer ==
    /\ legacy.pc = "get"
    /\ LET got == FetchJsonFile(AboutPath)
       IN \/ /\ got.ok
             /\ legacy' = [legacy EXCEPT !.pc = "done",
                             !.resp = [status |-> 200, sha |-> got.sha,
                                       content |-> got.content]]
          \/ /\ ~got.ok
             /\ legacy' = [legacy EXCEPT !.pc = "done",
                             !.resp = [status |-> CatchStatus(got.err),
                                       error |-> "Failed to fetch about.json",
                                       details |-> CatchDetails(got.err)]]
          \/ \E err \in UpstreamFailures :
                legacy' = [legacy EXCEPT !.pc = "done",
                             !.resp = [status |-> CatchStatus(err),
                                       error |-> "Failed to fetch about.json",
                                       details |-> CatchDetails(err)]]
    /\ UNCHANGED <<storeVars, hs, nCalls, nExternal, nLegacy, clientVars, readVars, probe, auth, pageVars>>

LegacyFinish ==
    /\ legacy.pc = "done"
    /\ legacy' = IdleLegacy
    /\ UNCHANGED <<storeVars, hs, nCalls, nExternal, nLegacy, clientVars, readVars, probe, auth, pageVars>>

(***************************************************************************)
(* A writer outside the server (a git push to the branch, not forced): a   *)
(* new commit on top of the tip, with one file replaced.                   *)
(***************************************************************************)
\* What the outside writer pushes: a locations.json that is not JSON (an
\* unresolved merge), or a new about.json.
ExternalWrites ==
    { [path |-> LocationsPath, text |-> <<"<<<<<<<", "HEAD">>],
      [path |-> AboutPath, text |-> StringifyJson(Doc("TX", <<"s1">>))] }

ExternalPush(path, text) ==
    /\ nExternal < MaxExternal
    /\ nExternal' = nExternal + 1
    /\ commits' = Append(commits,
          [tree |-> [commits[branch].tree EXCEPT ![path] = BlobSha(text)],
           parents |-> <<branch>>, message |-> "external"])
    /\ branch' = Len(commits) + 1
    /\ refLog' = Append(refLog, [by |-> [kind |-> "external", id |-> nExternal + 1],
                                 tip |-> branch, from |-> branch,
                                 to |-> Len(commits) + 1, ok |-> TRUE])
    /\ UNCHANGED <<hs, legacy, nCalls, nLegacy, clientVars, readVars, probe, auth, pageVars>>

(***************************************************************************)
(* The client's edit buffer (App.tsx).  stateByFile maps the names that    *)
(* have an entry to [content, sha, dirty]; pushing is the flag that        *)
(* disables the push button; push is the pushChanges call: its position,   *)
(* its filesPayload, how it ended, and as history the buffer when it       *)
(* started and whether the buffer was touched by anything else since.      *)
(* The server is seen from the client as the answer of POST /api/batch.    *)
(***************************************************************************)
ClientFiles == {"locations.json", "about.json"}

\* What a fetch of a file returns, and what the editors set a file to.
ClientContents(name) ==
    IF name = "locations.json"
      THEN {Arr(<<"e1">>), Arr(<<"e1", "e2">>)}
      ELSE {Doc("T1", <<"s1">>), Doc("T2", <<"s1">>)}

IdlePush == [pc |-> "idle", payload |-> <<>>, outcome |-> "none", error |-> "",
             snapshot |-> <<>>, touched |-> FALSE]

\* stateByFile is an object whose keys keep their insertion order: a
\* sequence of [name, content, sha, dirty].
HasEntry(buffer, name) == \E i \in 1..Len(buffer) : buffer[i].name = name

EntryOf(buffer, name) == buffer[CHOOSE i \in 1..Len(buffer) : buffer[i].name = name]

\* {...prev, [name]: entry}
WithEntry(prev, entry) ==
    IF HasEntry(prev, entry.name)
      THEN [i \in 1..Len(prev) |-> IF prev[i].name = entry.name THEN entry ELSE prev[i]]
      ELSE Append(prev, entry)

IsDirty(e) == e.dirty

\* Object.entries(stateByFile).filter(([, v]) => v.dirty)
DirtyEntries(buffer) == SelectSeq(buffer, IsDirty)

\* dirtyEntries.map(([name, v]) => ({path: `data/${name}`, content: v.content}))
FilesPayload(buffer) ==
    LET dirtyEntries == DirtyEntries(buffer)
    IN [i \in 1..Len(dirtyEntries) |->
          [path |-> <<FILE_DIR, dirtyEntries[i].name>>, content |-> dirtyEntries[i].content]]

\* An updater that marks only the first entry clean.
MarkFirstClean(prev) ==
    [i \in 1..Len(prev) |-> IF i = 1 THEN [prev[i] EXCEPT !.dirty = FALSE] ELSE prev[i]]

\* An updater that marks every entry clean.
MarkAllClean(prev) == [i \in 1..Len(prev) |-> [prev[i] EXCEPT !.dirty = FALSE]]

\* The mark-all-clean updater: every dirty entry of prev becomes clean.
MarkClean(prev) ==
    [i \in 1..Len(prev) |-> IF prev[i].dirty THEN [prev[i] EXCEPT !.dirty = FALSE]
                                             ELSE prev[i]]

\* What the catch block of pushChanges does to the buffer: nothing.
AfterPushError(prev) == prev

\* A fetch of a file that has no entry lands: {content, sha, dirty: false}.
ClientLoaded(name, content) ==
    /\ ~HasEntry(stateByFile, name)
    /\ stateByFile' = WithEntry(stateByFile,
                         [name |-> name, content |-> content,
                          sha |-> BlobSha(StringifyJson(content)), dirty |-> FALSE])
    /\ push' = [push EXCEPT !.touched = TRUE]
    /\ UNCHANGED <<pushing, nEdits, nPushes, aboutEditor, storeVars, serverVars, readVars, ui, probe, pageVars>>

\* An editor sets a file's content:
\* {...prev, [name]: {...(prev[name] || {dirty: false}), content: next, dirty: true}}
ClientEdit(name, next) ==
    /\ nEdits < MaxEdits
    /\ nEdits' = nEdits + 1
    /\ stateByFile' = WithEntry(stateByFile,
                         [name |-> name, content |-> next,
                          sha |-> IF HasEntry(stateByFile, name)
                                    THEN EntryOf(stateByFile, name).sha ELSE NoFile,
                          dirty |-> TRUE])
    /\ push' = [push EXCEPT !.touched = TRUE]
    /\ UNCHANGED <<pushing, nPushes, aboutEditor, storeVars, serverVars, readVars, ui, probe, pageVars>>

\* pushChanges up to its await: nothing dirty (alert, return, finally), or
\* the payload is posted.
PushStart ==
    /\ ~pushing
    /\ push.pc = "idle"
    /\ nPushes < MaxPushes
    /\ nPushes' = nPushes + 1
    /\ IF Len(DirtyEntries(stateByFile)) = 0
         THEN /\ push' = [IdlePush EXCEPT !.outcome = "nochanges", !.snapshot = stateByFile]
              /\ pushing' = FALSE
         ELSE /\ push' = [IdlePush EXCEPT !.pc = "awaiting", !.snapshot = stateByFile,
                                          !.payload = FilesPayload(stateByFile)]
              /\ pushing' = TRUE
    /\ UNCHANGED <<stateByFile, nEdits, aboutEditor, storeVars, serverVars, readVars, ui, probe, pageVars>>

\* The answer carries a commitSha: mark all as clean; finally setPushing(false).
PushResolved ==
    /\ push.pc = "awaiting"
    /\ stateByFile' = MarkClean(stateByFile)
    /\ push' = [push EXCEPT !.pc = "idle", !.outcome = "ok"]
    /\ pushing' = FALSE
    /\ UNCHANGED <<nEdits, nPushes, aboutEditor, storeVars, serverVars, readVars, ui, probe, pageVars>>

\* A catch block with no finally after it: the flag stays set.
PushRejectedNoFinally(details) ==
    /\ push.pc = "awaiting"
    /\ stateByFile' = stateByFile
    /\ push' = [push EXCEPT !.pc = "idle", !.outcome = "failed", !.error = details]
    /\ UNCHANGED <<pushing, nEdits, nPushes, aboutEditor, storeVars, serverVars, readVars,
                   ui, probe, pageVars>>

\* The post rejects (any status that is not 2xx, or no answer): the catch
\* block sets the error; finally setPushing(false).
PushRejected(details) ==
    /\ push.pc = "awaiting"
    /\ stateByFile' = AfterPushError(stateByFile)
    /\ push' = [push EXCEPT !.pc = "idle", !.outcome = "failed", !.error = details]
    /\ pushing' = FALSE
    /\ UNCHANGED <<nEdits, nPushes, aboutEditor, storeVars, serverVars, readVars, ui, probe, pageVars>>

(***************************************************************************)
(* GET /api/file/:name, and the client's load of a file that has no entry. *)
(***************************************************************************)
\* upstream is history: how the store answered the fetch.
IdleFileCall == [pc |-> "idle", name |-> "", client |-> FALSE, resp |-> [status |-> 0],
                 upstream |-> "none"]

IdleLoad == [pc |-> "idle", name |-> "", outcome |-> "none"]

\* The names the callers ask for; the client asks for editable files only.
FileNames == {"locations.json", "about.json", "live.json", "more.json", "times.json", "a/b"}

LoadFiles == {"locations.json", "about.json", "live.json", "more.json", "times.json"}

\* /\//.test(name)
HasSlash(name) == name = "a/b"

\* A mapping that has forgotten live.json.
FileDefaultWithoutLive(name) ==
    IF name \in {"locations.json", "times.json", "repeating-events.json"}
      THEN Arr(<<>>)
      ELSE Doc("", <<>>)

\* The default content of the 404 branch, by the file's name.
FileDefault(name) ==
    IF name = "locations.json" THEN Arr(<<>>)
    ELSE IF name = "times.json" THEN Arr(<<>>)
    ELSE IF name = "repeating-events.json" THEN Arr(<<>>)
    ELSE IF name = "live.json" THEN Arr(<<>>)
    ELSE Doc("", <<>>)

\* A catch block that answers every error as an error.
FileCatchRespNoDefault(name, err) ==
    [status |-> CatchStatus(err), error |-> "Failed to fetch file",
     details |-> CatchDetails(err)]

\* The catch block of the route: the 404 becomes a success with the default
\* skeleton; any other error is answered with its status and details.
FileCatchResp(name, err) ==
    IF CatchStatus(err) = 404
      THEN [status |-> 200, sha |-> NoFile, content |-> FileDefault(name),
            notFound |-> TRUE]
      ELSE [status |-> CatchStatus(err), error |-> "Failed to fetch file",
            details |-> CatchDetails(err)]

\* The effect that loads the selected file when it has no entry: issue the GET.
LoadStart(name) ==
    /\ load.pc = "idle"
    /\ nLoads < MaxLoads
    /\ ~HasEntry(stateByFile, name)
    /\ nLoads' = nLoads + 1
    /\ load' = [IdleLoad EXCEPT !.pc = "awaiting", !.name = name]
    /\ UNCHANGED <<fileCall, probe, storeVars, serverVars, clientVars, pageVars>>

\* The route receives the client's request, or one of another caller: the
\* name check; issue the fetch of data/<name>.
FileReceive(name, fromClient) ==
    /\ fileCall.pc = "idle"
    /\ IF fromClient
         THEN load.pc = "awaiting" /\ load.name = name /\ UNCHANGED nLoads
         ELSE load.pc = "idle" /\ nLoads < MaxLoads /\ nLoads' = nLoads + 1
    /\ IF HasSlash(name)
         THEN fileCall' = [IdleFileCall EXCEPT !.pc = "done", !.name = name,
                             !.client = fromClient,
                             !.resp = [status |-> 400, error |-> "Invalid file name"]]
         ELSE fileCall' = [IdleFileCall EXCEPT !.pc = "fetch", !.name = name,
                             !.client = fromClient]
    /\ UNCHANGED <<load, probe, storeVars, serverVars, clientVars, pageVars>>

\* The answer of the fetch: the file's {sha, content}; or the catch block.
FileAnswer ==
    /\ fileCall.pc = "fetch"
    /\ LET got == FetchJsonFile(<<FILE_DIR, fileCall.name>>)
       IN \/ /\ got.ok
             /\ fileCall' = [fileCall EXCEPT !.pc = "done", !.upstream = "found",
                               !.resp = [status |-> 200, sha |-> got.sha,
                                         content |-> got.content]]
          \/ /\ ~got.ok
             /\ fileCall' = [fileCall EXCEPT !.pc = "done",
                               !.upstream = IF got.err.response THEN "absent" ELSE "notjson",
                               !.resp = FileCatchResp(fileCall.name, got.err)]
          \/ \E err \in UpstreamFailures :
                fileCall' = [fileCall EXCEPT !.pc = "done",
                               !.upstream = IF err.response THEN ToString(err.status)
                                                            ELSE "noanswer",
                               !.resp = FileCatchResp(fileCall.name, err)]
    /\ UNCHANGED <<load, nLoads, probe, storeVars, serverVars, clientVars, pageVars>>

\* The response of another caller's request has been sent.
FileFinish ==
    /\ fileCall.pc = "done"
    /\ ~fileCall.client
    /\ fileCall' = IdleFileCall
    /\ UNCHANGED <<load, nLoads, probe, storeVars, serverVars, clientVars, pageVars>>

\* The content the load keeps: of times.json, the times that have not passed
\* (Date.parse(t.datetime) >= Date.now()).
LoadedContent(name, content) ==
    LET notPassed(t) == t # "tPast"
    IN IF name = "times.json" /\ IsArray(content)
         THEN Arr(SelectSeq(content.items, notPassed))
         ELSE content

\* The client's GET settles: a 2xx answer creates the entry
\* {content, sha: resp.data.sha ?? undefined, dirty: false}; a rejected GET
\* only sets the error message.
LoadLanded ==
    /\ load.pc = "awaiting"
    /\ fileCall.pc = "done"
    /\ fileCall.client
    /\ IF fileCall.resp.status = 200
         THEN /\ stateByFile' = WithEntry(stateByFile,
                     [name |-> load.name,
                      content |-> LoadedContent(load.name, fileCall.resp.content),
                      sha |-> fileCall.resp.sha, dirty |-> FALSE])
              /\ push' = [push EXCEPT !.touched = TRUE]
              /\ load' = [load EXCEPT !.pc = "idle", !.outcome = "loaded"]
         ELSE /\ UNCHANGED <<stateByFile, push, pageVars>>
              /\ load' = [load EXCEPT !.pc = "idle", !.outcome = "failed"]
    /\ fileCall' = IdleFileCall
    /\ UNCHANGED <<pushing, nEdits, nPushes, aboutEditor, nLoads, ui, probe, storeVars, serverVars, pageVars>>

(***************************************************************************)
(* A session of the client against the server: the push's POST /api/batch  *)
(* is a call of the batch handler, and the push settles with its answer.   *)
(***************************************************************************)
\* The load of a file that has no entry, from the GET to the landing, with
\* no upstream failure: the route reads the store once, and a 2xx answer
\* creates the entry.
SessionLoad(name) ==
    /\ ~HasEntry(stateByFile, name)
    /\ LET got == FetchJsonFile(<<FILE_DIR, name>>)
           resp == IF got.ok THEN [status |-> 200, sha |-> got.sha, content |-> got.content]
                             ELSE FileCatchResp(name, got.err)
       IN /\ resp.status = 200
          /\ stateByFile' = WithEntry(stateByFile,
                                [name |-> name,
                                 content |-> LoadedContent(name, resp.content),
                                 sha |-> resp.sha, dirty |-> FALSE])
    /\ push' = [push EXCEPT !.touched = TRUE]
    /\ UNCHANGED <<pushing, nEdits, nPushes, aboutEditor, storeVars, serverVars,
                   readVars, ui, probe, pageVars>>

\* The request of pushChanges: {files: filesPayload, commitMessage}.
PushRequest ==
    [user |-> "u1",
     body |-> [files |-> Arr(push.payload), commitMessage |-> "Update files via dashboard"]]

\* The post of the push arrives at the server.
SessionPost ==
    /\ push.pc = "awaiting"
    /\ BatchReceive("h1", PushRequest, MaxCalls)

\* The answer arrives: with a commitSha, mark all as clean; a status that is
\* not 2xx rejects the post and the catch block sets the error; finally
\* setPushing(false).
SessionSettle ==
    /\ push.pc = "awaiting"
    /\ hs["h1"].pc = "done"
    /\ IF hs["h1"].resp.status = 200
         THEN /\ stateByFile' = MarkClean(stateByFile)
              /\ push' = [push EXCEPT !.pc = "idle", !.outcome = "ok"]
         ELSE /\ stateByFile' = AfterPushError(stateByFile)
              /\ push' = [push EXCEPT !.pc = "idle", !.outcome = "failed",
                                      !.error = hs["h1"].resp.error]
    /\ pushing' = FALSE
    /\ hs' = [hs EXCEPT !["h1"] = IdleCall]
    /\ UNCHANGED <<nEdits, nPushes, aboutEditor, storeVars, legacy, nCalls, nExternal,
                   nLegacy, readVars, ui, probe, auth, pageVars>>

(***************************************************************************)
(* The AboutEditor component: it loads about.json through GET /api/about   *)
(* and saves it through POST /api/about.                                   *)
(*   pc       "init", "loading", "ready" or "saving"                       *)
(*   about, sha   the component's state (NoFile for a null sha)            *)
(*   saves    history: per save, how it ended and the commit it made       *)
(***************************************************************************)
\* The sha of a commit, as the store writes it in a response.
CommitSha(c) == <<"commit", ToString(c)>>

InitialEditor ==
    [pc |-> "init", about |-> Doc("", <<>>), sha |-> NoFile, error |-> "",
     saves |-> <<>>]

\* What the user sets the document to.
AboutContents == {Doc("T3", <<"s1">>), Doc("T4", <<"s1">>)}

\* The mount effect: issue GET /api/about.
EditorLoadStart ==
    /\ aboutEditor.pc = "init"
    /\ legacy.pc = "idle"
    /\ aboutEditor' = [aboutEditor EXCEPT !.pc = "loading"]
    /\ legacy' = [IdleLegacy EXCEPT !.pc = "get"]
    /\ UNCHANGED <<storeVars, hs, nCalls, nExternal, nLegacy, stateByFile, pushing, push,
                   nEdits, nPushes, readVars, ui, probe, auth, pageVars>>

\* The GET settles: setAbout(resp.data.content), setSha(resp.data.sha); or
\* the catch block sets the error.
EditorLoaded ==
    /\ aboutEditor.pc = "loading"
    /\ legacy.pc = "done"
    /\ IF legacy.resp.status = 200
         THEN aboutEditor' = [aboutEditor EXCEPT !.pc = "ready",
                                !.about = legacy.resp.content, !.sha = legacy.resp.sha]
         ELSE aboutEditor' = [aboutEditor EXCEPT !.pc = "ready",
                                !.error = legacy.resp.error]
    /\ legacy' = IdleLegacy
    /\ UNCHANGED <<storeVars, hs, nCalls, nExternal, nLegacy, stateByFile, pushing, push,
                   nEdits, nPushes, readVars, ui, probe, auth, pageVars>>

\* setAbout(next)
EditorEdit(next) ==
    /\ aboutEditor.pc = "ready"
    /\ aboutEditor' = [aboutEditor EXCEPT !.about = next]
    /\ UNCHANGED <<storeVars, serverVars, stateByFile, pushing, push, nEdits, nPushes,
                   readVars, ui, probe, pageVars>>

\* resp.data?.commit?.sha after a save, or the sha the component has.
SavedSha(resp, sha) ==
    IF HasField(resp, "commit") THEN CommitSha(resp.commit) ELSE sha

\* The body of the save: {content, commitMessage, baseSha: sha || undefined}.
EditorBody ==
    IF aboutEditor.sha = NoFile
      THEN [content |-> aboutEditor.about,
            commitMessage |-> "Update about.json via dashboard"]
      ELSE [content |-> aboutEditor.about,
            commitMessage |-> "Update about.json via dashboard",
            baseSha |-> aboutEditor.sha]

\* AboutEditor.pushChanges up to its await: post the save.
EditorSave ==
    /\ aboutEditor.pc = "ready"
    /\ legacy.pc = "idle"
    /\ Len(aboutEditor.saves) < MaxSaves
    /\ aboutEditor' = [aboutEditor EXCEPT !.pc = "saving", !.error = ""]
    /\ LegacyAccept(EditorBody)
    /\ UNCHANGED <<storeVars, hs, nCalls, nExternal, nLegacy, stateByFile, pushing, push,
                   nEdits, nPushes, readVars, ui, probe, auth, pageVars>>

\* The save settles: setSha(resp.data.commit.sha), or the catch block.
EditorSaved ==
    /\ aboutEditor.pc = "saving"
    /\ legacy.pc = "done"
    /\ IF legacy.resp.status = 200
         THEN aboutEditor' = [aboutEditor EXCEPT !.pc = "ready",
                                !.sha = SavedSha(legacy.resp, aboutEditor.sha),
                                !.saves = Append(@, [status |-> 200,
                                                     commit |-> legacy.resp.commit])]
         ELSE aboutEditor' = [aboutEditor EXCEPT !.pc = "ready",
                                !.error = "Failed to push changes",
                                !.saves = Append(@, [status |-> legacy.resp.status,
                                                     commit |-> 0])]
    /\ legacy' = IdleLegacy
    /\ UNCHANGED <<storeVars, hs, nCalls, nExternal, nLegacy, stateByFile, pushing, push,
                   nEdits, nPushes, readVars, ui, probe, auth, pageVars>>

(***************************************************************************)
(* The editors of the list files.  A location is the atom of its id; a     *)
(* time, a schedule (repeating event) or a live entry is an atom that      *)
(* names the location it refers to.                                        *)
(***************************************************************************)
DependentFiles == {"times.json", "repeating-events.json", "live.json"}

\* What the fetch of each list file returns.
EditorContents(name) ==
    CASE name = "locations.json" -> Arr(<<"L1", "L2">>)
      [] name = "times.json" -> Arr(<<"t1@L1", "t2@L2">>)
      [] name = "repeating-events.json" -> Arr(<<"r1@L1">>)
      [] name = "live.json" -> Arr(<<"v1@L1", "v2@L2">>)

\* l.id of a location
IdOfLocation(l) == l

\* t.locationId of a time, a schedule or a live entry
LocationIdOf(e) ==
    CASE e \in {"t1@L1", "r1@L1", "v1@L1"} -> "L1"
      [] e \in {"t2@L2", "v2@L2"} -> "L2"
      [] OTHER -> ""

\* a.location.localeCompare(b.location) < 0, then the venue
LocationBefore(a, b) == a = "L1" /\ b = "L2"

\* [...list].sort(by location, then venue)
RECURSIVE sortLocations(_)
sortLocations(list) ==
    IF Len(list) <= 1 THEN list
    ELSE LET rest == sortLocations(Tail(list))
             k == Cardinality({i \in 1..Len(rest) : LocationBefore(rest[i], Head(list))})
         IN SubSeq(rest, 1, k) \o <<Head(list)>> \o SubSeq(rest, k + 1, Len(rest))

\* (stateByFile[name]?.content) || []
ListOf(buffer, name) ==
    IF HasEntry(buffer, name) THEN EntryOf(buffer, name).content.items ELSE <<>>

\* {...prev, [name]: {...(prev[name] || {dirty: false}), content: next, dirty: true}}
SetList(prev, name, next) ==
    WithEntry(prev, [name |-> name, content |-> Arr(next),
                     sha |-> IF HasEntry(prev, name) THEN EntryOf(prev, name).sha ELSE NoFile,
                     dirty |-> TRUE])

\* list.filter(e => e.locationId !== id)
WithoutLocation(list, id) ==
    LET keep(e) == LocationIdOf(e) # id IN SelectSeq(list, keep)

\* Dashboard.removeLocation(indexInSorted): setLocations, setTimes, setLive,
\* setRepeats, computed from the props of the render.
removeLocation(buffer, indexInSorted) ==
    LET locations == ListOf(buffer, "locations.json")
        target == sortLocations(locations)[indexInSorted]
        isOther(l) == l # target
        s1 == SetList(buffer, "locations.json", sortLocations(SelectSeq(locations, isOther)))
        s2 == SetList(s1, "times.json",
                      WithoutLocation(ListOf(buffer, "times.json"), IdOfLocation(target)))
        s3 == SetList(s2, "live.json",
                      WithoutLocation(ListOf(buffer, "live.json"), IdOfLocation(target)))
    IN SetList(s3, "repeating-events.json",
               WithoutLocation(ListOf(buffer, "repeating-events.json"), IdOfLocation(target)))

\* The Location Control dashboard removes a location.
DashboardRemoveLocation(indexInSorted) ==
    /\ indexInSorted \in 1..Len(ListOf(stateByFile, "locations.json"))
    /\ stateByFile' = removeLocation(stateByFile, indexInSorted)
    /\ push' = [push EXCEPT !.touched = TRUE]
    /\ UNCHANGED <<pushing, nEdits, nPushes, aboutEditor, storeVars, serverVars, readVars, ui, probe, pageVars>>

\* The onChange of the locations.json file editor: the sorted list, the ids
\* that are gone, and the times of these ids removed when times.json has an
\* entry.
LocationsOnChange(prev, next) ==
    LET prevLocs == ListOf(prev, "locations.json")
        prevIds == {IdOfLocation(prevLocs[i]) : i \in 1..Len(prevLocs)}
        sortedNext == sortLocations(next)
        nextIds == {IdOfLocation(sortedNext[i]) : i \in 1..Len(sortedNext)}
        removedIds == prevIds \ nextIds
        nextState == SetList(prev, "locations.json", sortedNext)
        times == ListOf(prev, "times.json")
        kept(t) == LocationIdOf(t) \notin removedIds
        filteredTimes == SelectSeq(times, kept)
    IN IF removedIds # {} /\ HasEntry(prev, "times.json") /\ Len(filteredTimes) # Len(times)
         THEN SetList(nextState, "times.json", filteredTimes)
         ELSE nextState

\* LocationsEditor.removeEntry(index), shown when locations.json is selected
\* and has an entry: onChange(value.filter((_, i) => i !== index)).
LocationsEditorRemoveEntry(index) ==
    /\ HasEntry(stateByFile, "locations.json")
    /\ index \in 1..Len(ListOf(stateByFile, "locations.json"))
    /\ LET value == ListOf(stateByFile, "locations.json")
           next == SubSeq(value, 1, index - 1) \o SubSeq(value, index + 1, Len(value))
       IN stateByFile' = LocationsOnChange(stateByFile, next)
    /\ push' = [push EXCEPT !.touched = TRUE]
    /\ UNCHANGED <<pushing, nEdits, nPushes, aboutEditor, storeVars, serverVars, readVars, ui, probe, pageVars>>

(***************************************************************************)
(* Applications of the server's pure functions to drawn inputs.            *)
(***************************************************************************)
\* The lists of at most n elements of a set.
RECURSIVE ListsUpTo(_, _)
ListsUpTo(S, n) ==
    IF n = 0 THEN {<<>>}
    ELSE LET shorter == ListsUpTo(S, n - 1)
         IN shorter \cup {Append(l, x) : l \in shorter, x \in S}

\* The JSON values drawn: lists (e1r is the text of e1's object with its
\* keys in another order), documents (s1r is s1's object with its keys in
\* another order), null, a scalar, and documents whose sections is a string.
ProbeValues ==
    {Arr(l) : l \in ListsUpTo({"e1", "e1r", "e2"}, MaxLen)}
    \cup {Doc(t, l) : t \in {"T1", "T2"},
                       l \in ListsUpTo({"s1", "s2"}, MaxLen) \cup {<<"s1r">>}}
    \cup {Null, Str("x")}
    \cup {OddDoc("T1", n) : n \in 1..MaxLen}

ProbePaths == {LocationsPath, AboutPath}

ProbeNames == {"about.json", "attend.json", "more.json", "locations.json", "times.json",
               "repeating-events.json", "live.json", "other.json"}

\* req.user of a session: the Discord id and the username.
SessionUsers ==
    { [id |-> "u1", username |-> "alice"],
      [id |-> "u2", username |-> "bob"],
      [id |-> "u3", username |-> "carol"] }

\* generateChangeReport applied to one old and one new content.
ProbeReport(old, new, path) ==
    /\ probe.kind = "none"
    /\ probe' = [kind |-> "report", old |-> old, new |-> new, path |-> path,
                 raised |-> generateChangeReportThrows(old, new, path),
                 lines |-> IF generateChangeReportThrows(old, new, path) THEN <<>>
                           ELSE generateChangeReport(old, new, path)]
    /\ UNCHANGED <<storeVars, serverVars, clientVars, readVars, pageVars>>

\* The two name-to-default mappings applied to one file name.
ProbeDefault(name) ==
    /\ probe.kind = "none"
    /\ probe' = [kind |-> "default", name |-> name,
                 batch |-> DefaultSkeleton(<<FILE_DIR, name>>),
                 file |-> FileDefault(name)]
    /\ UNCHANGED <<storeVars, serverVars, clientVars, readVars, pageVars>>

\* The user tag and the commit message of one request body, for two
\* session users.
ProbeMessage(u, v, body, old) ==
    /\ probe.kind = "none"
    /\ LET reports == ChangeReportsOf(body.files.items,
                          [i \in 1..Len(body.files.items) |-> [content |-> old]])
       IN probe' = [kind |-> "message", users |-> <<u, v>>, body |-> body,
                    reports |-> reports,
                    messages |-> << FullCommitMessage(body, AnonOf(u.id), reports),
                                    FullCommitMessage(body, AnonOf(v.id), reports) >>]
    /\ UNCHANGED <<storeVars, serverVars, clientVars, readVars, pageVars>>

(***************************************************************************)
(* Lazy loading: the four effects of App.tsx that fetch the files the      *)
(* view needs.  Every effect has stateByFile among its dependencies: when  *)
(* a dependency changed, React runs the effect's cleanup (cancelled =      *)
(* true, which makes the response of its fetch a no-op) and the effect     *)
(* again.  After an update made by a promise continuation React runs the   *)
(* effects later, in a task of its own; after an update made by a user     *)
(* event it runs them before the event returns.                            *)
(*   view, selected   the state of the same names                          *)
(*   changed    the dependencies that changed since the effects last ran   *)
(*   fetches    per effect, the fetch in flight that is not cancelled: the *)
(*              names it asked for, and as history the names whose entry   *)
(*              was written since it started                               *)
(*   last       history: the landing of the last step, if it was one       *)
(*   nEvents    a counter that bounds the clicks on views and files        *)
(* The files are those of the store model; an edit is one content per file.*)
(***************************************************************************)
DashboardFiles == <<"locations.json", "times.json", "live.json">>

ContentFiles == <<"about.json">>

LazyFiles == {"locations.json", "times.json", "live.json", "about.json"}

Views == {"files", "locations", "content"}

Effects == {"load", "ensureLocations", "ensureTimes", "preload"}

NoFetch == [live |-> FALSE, names |-> <<>>, touched |-> {}]

NoLanding == [op |-> "none", effect |-> "none", applied |-> {}]

\* useState('about.json'), useState('locations'); the user has just been
\* set, so every effect is due.
InitialUi ==
    [view |-> "locations", selected |-> "about.json", changed |-> {"user"},
     fetches |-> [e \in Effects |-> NoFetch], last |-> NoLanding, nEvents |-> 0]

\* The dependency array of an effect.
Deps(e) ==
    IF e = "preload" THEN {"view", "stateByFile", "user"}
                     ELSE {"selected", "stateByFile", "user"}

\* An effect that fetches the files it is about whether they have an entry
\* or not.
NeedsAlways(e, view, selected, buffer) ==
    IF e = "load" THEN <<selected>>
    ELSE IF e = "ensureLocations"
      THEN IF selected \in DependentFiles THEN <<"locations.json">> ELSE <<>>
    ELSE IF e = "ensureTimes"
      THEN IF selected = "live.json" THEN <<"times.json">> ELSE <<>>
    ELSE IF view = "locations" THEN DashboardFiles
    ELSE IF view = "content" THEN DashboardFiles \o ContentFiles
    ELSE <<>>

\* The names an effect fetches when it runs: the files it is about that
\* have no entry (if (stateByFile[name]) return; if (!stateByFile[name])
\* needs.push(name)).
Needs(e, view, selected, buffer) ==
    LET absent(n) == ~HasEntry(buffer, n) IN
    IF e = "load" THEN SelectSeq(<<selected>>, absent)
    ELSE IF e = "ensureLocations"
      THEN IF selected \in DependentFiles
             THEN SelectSeq(<<"locations.json">>, absent) ELSE <<>>
    ELSE IF e = "ensureTimes"
      THEN IF selected = "live.json" THEN SelectSeq(<<"times.json">>, absent) ELSE <<>>
    ELSE IF view = "locations" THEN SelectSeq(DashboardFiles, absent)
    ELSE IF view = "content" THEN SelectSeq(DashboardFiles \o ContentFiles, absent)
    ELSE <<>>

\* React runs the effects whose dependencies changed: the cleanup cancels
\* the fetch in flight, and the effect starts the fetch of what it needs.
FlushEffects(u, buffer) ==
    [u EXCEPT
       !.changed = {},
       !.fetches =
          [e \in Effects |->
             IF Deps(e) \cap u.changed = {} THEN u.fetches[e]
             ELSE LET needs == Needs(e, u.view, u.selected, buffer)
                  IN IF needs = <<>> THEN NoFetch
                     ELSE [live |-> TRUE, names |-> needs, touched |-> {}]]]

\* History: the entries of names were written while the fetches are in flight.
Touch(u, names) ==
    [u EXCEPT !.fetches =
        [e \in Effects |->
           IF u.fetches[e].live THEN [u.fetches[e] EXCEPT !.touched = @ \cup names]
                                ELSE u.fetches[e]]]

\* What GET /api/file/<name> answers when the store answers the fetch.
FileResponse(name) ==
    LET got == FetchJsonFile(<<FILE_DIR, name>>)
    IN IF got.ok THEN [status |-> 200, sha |-> got.sha, content |-> got.content]
                 ELSE FileCatchResp(name, got.err)

\* The content an effect stores: the load and the preload drop the times
\* that have passed, the two ensure effects store the content as it came.
EffectContent(e, name, content) ==
    IF e \in {"load", "preload"} THEN LoadedContent(name, content) ELSE content

\* The updater of a landing: every fetched name gets the entry
\* {content, sha: data.sha ?? undefined, dirty: false}, whatever prev holds.
RECURSIVE ApplyResults(_, _, _)
ApplyResults(prev, e, names) ==
    IF names = <<>> THEN prev
    ELSE LET name == Head(names)
             resp == FileResponse(name)
         IN ApplyResults(WithEntry(prev, [name |-> name,
                                          content |-> EffectContent(e, name, resp.content),
                                          sha |-> resp.sha, dirty |-> FALSE]),
                         e, Tail(names))

NamesOf(fetch) == {fetch.names[i] : i \in 1..Len(fetch.names)}

\* React runs the effects that are due (after the user was set, or after a
\* landing changed stateByFile).
LazyFlush ==
    /\ ui.changed # {}
    /\ ui' = [FlushEffects(ui, stateByFile) EXCEPT !.last = NoLanding]
    /\ UNCHANGED <<stateByFile, pushing, push, nEdits, nPushes, aboutEditor,
                   storeVars, serverVars, readVars, probe, pageVars>>

\* The responses of an effect's fetch have arrived and the effect's cleanup
\* has not run (if (cancelled) return): its updater is applied.
LazyLand(e) ==
    /\ ui.fetches[e].live
    /\ \A n \in NamesOf(ui.fetches[e]) : FileResponse(n).status = 200
    /\ stateByFile' = ApplyResults(stateByFile, e, ui.fetches[e].names)
    /\ ui' = [Touch([ui EXCEPT !.fetches[e] = NoFetch], NamesOf(ui.fetches[e]))
                EXCEPT !.changed = @ \cup {"stateByFile"},
                       !.last = [op |-> "land", effect |-> e,
                                 applied |-> NamesOf(ui.fetches[e])]]
    /\ push' = [push EXCEPT !.touched = TRUE]
    /\ UNCHANGED <<pushing, nEdits, nPushes, aboutEditor, storeVars, serverVars,
                   readVars, probe, pageVars>>

\* A GET of an effect's fetch is rejected: the catch block, no entry.
LazyFail(e) ==
    /\ ui.fetches[e].live
    /\ ui' = [ui EXCEPT !.fetches[e] = NoFetch, !.last = NoLanding]
    /\ UNCHANGED <<stateByFile, pushing, push, nEdits, nPushes, aboutEditor,
                   storeVars, serverVars, readVars, probe, pageVars>>

\* The files the view lets the user edit: the Dashboard's, the
\* ContentDashboard's, or the selected file once it has an entry.
EditableIn(view, selected, buffer) ==
    IF view = "locations" THEN {"locations.json", "times.json", "live.json"}
    ELSE IF view = "content" THEN {"about.json"}
    ELSE IF HasEntry(buffer, selected) THEN {selected}
    ELSE {}

\* What an editor sets a file to.
EditedContent(name) ==
    IF name = "about.json" THEN Doc("T2", <<"s1">>) ELSE Arr(<<"e9">>)

\* A user edit:
\* {...prev, [name]: {...(prev[name] || {dirty: false}), content: next, dirty: true}};
\* React runs the effects before the event returns.
LazyEdit(name) ==
    /\ nEdits < MaxEdits
    /\ name \in EditableIn(ui.view, ui.selected, stateByFile)
    /\ nEdits' = nEdits + 1
    /\ stateByFile' = WithEntry(stateByFile,
                         [name |-> name, content |-> EditedContent(name),
                          sha |-> IF HasEntry(stateByFile, name)
                                    THEN EntryOf(stateByFile, name).sha ELSE NoFile,
                          dirty |-> TRUE])
    /\ ui' = [FlushEffects([Touch(ui, {name}) EXCEPT !.changed = @ \cup {"stateByFile"}],
                           stateByFile')
                EXCEPT !.last = NoLanding]
    /\ push' = [push EXCEPT !.touched = TRUE]
    /\ UNCHANGED <<pushing, nPushes, aboutEditor, storeVars, serverVars, readVars, probe, pageVars>>

\* A click in the file list of the Files view: setSelected(name).
LazySelect(name) ==
    /\ ui.view = "files"
    /\ name # ui.selected
    /\ ui.nEvents < MaxEvents
    /\ ui' = [FlushEffects([ui EXCEPT !.selected = name, !.changed = @ \cup {"selected"},
                                      !.nEvents = @ + 1],
                           stateByFile)
                EXCEPT !.last = NoLanding]
    /\ UNCHANGED <<stateByFile, pushing, push, nEdits, nPushes, aboutEditor,
                   storeVars, serverVars, readVars, probe, pageVars>>

\* A click on one of the three view buttons: setView(v).
LazySetView(v) ==
    /\ v # ui.view
    /\ ui.nEvents < MaxEvents
    /\ ui' = [FlushEffects([ui EXCEPT !.view = v, !.changed = @ \cup {"view"},
                                      !.nEvents = @ + 1],
                           stateByFile)
                EXCEPT !.last = NoLanding]
    /\ UNCHANGED <<stateByFile, pushing, push, nEdits, nPushes, aboutEditor,
                   storeVars, serverVars, readVars, probe, pageVars>>

(***************************************************************************)
(* The location editors: the ids they generate.  A text is the sequence of *)
(* its characters; an entry of locations.json is [id, location, venue]     *)
(* (lat and lng take no part in the ids).                                  *)
(*   value      the content of the locations.json buffer                   *)
(*   screen     the editor that is mounted: the Dashboard, or the editor   *)
(*              of the selected file                                       *)
(*   showAddModal, editingLocationId, draftLocation   the Dashboard's      *)
(*              state of the same names; editingLocationId is <<>> for     *)
(*              null and <<id>> for an id                                  *)
(*   generated  history: the call of generateUniqueId the last step made,  *)
(*              as <<[location, venue, id]>>, or <<>>                      *)
(***************************************************************************)
MaxLocs == 2

\* The characters of [a-z0-9] among the characters drawn.
SlugChars == {"a"}

\* String.prototype.toLowerCase, on the characters drawn.
toLowerCase(s) == [i \in 1..Len(s) |-> IF s[i] = "A" THEN "a" ELSE s[i]]

RECURSIVE trimStart(_)
trimStart(s) == IF s # <<>> /\ Head(s) = " " THEN trimStart(Tail(s)) ELSE s

RECURSIVE trimEnd(_)
trimEnd(s) ==
    IF s # <<>> /\ s[Len(s)] = " " THEN trimEnd(SubSeq(s, 1, Len(s) - 1)) ELSE s

\* String.prototype.trim
trim(s) == trimEnd(trimStart(s))

\* s.replace(/[^a-z0-9]+/g, '-')
RECURSIVE ReplaceRuns(_, _)
ReplaceRuns(s, inRun) ==
    IF s = <<>> THEN <<>>
    ELSE IF Head(s) \in SlugChars THEN <<Head(s)>> \o ReplaceRuns(Tail(s), FALSE)
    ELSE IF inRun THEN ReplaceRuns(Tail(s), TRUE)
    ELSE <<"-">> \o ReplaceRuns(Tail(s), TRUE)

\* s.replace(/^-+|-+$/g, '')
RECURSIVE StripDashes(_)
StripDashes(s) ==
    IF s # <<>> /\ Head(s) = "-" THEN StripDashes(Tail(s))
    ELSE IF s # <<>> /\ s[Len(s)] = "-" THEN StripDashes(SubSeq(s, 1, Len(s) - 1))
    ELSE s

slugify(input) == StripDashes(ReplaceRuns(trim(toLowerCase(input)), FALSE))

\* String(i)
RECURSIVE DecimalOf(_)
DecimalOf(i) ==
    LET digit == <<"0", "1", "2", "3", "4", "5", "6", "7", "8", "9">>[(i % 10) + 1]
    IN IF i < 10 THEN <<digit>> ELSE Append(DecimalOf(i \div 10), digit)

\* while (taken.has(candidate)) { candidate = `${base}-${i}`; i++ }
RECURSIVE FirstFree(_, _, _, _)
FirstFree(base, taken, candidate, i) ==
    IF candidate \notin taken THEN candidate
    ELSE FirstFree(base, taken, base \o <<"-">> \o DecimalOf(i), i + 1)

\* generateUniqueId(entries, baseLocation, baseVenue, selfIndex); the index is
\* counted from 1 here, and 0 is the -1 (or the missing argument) of the code.
generateUniqueId(entries, baseLocation, baseVenue, selfIndex) ==
    LET base == slugify(baseLocation) \o <<"-">> \o slugify(baseVenue)
        taken == {IF idx = selfIndex THEN <<>> ELSE entries[idx].id : idx \in 1..Len(entries)}
    IN IF base = <<>> THEN <<>> ELSE FirstFree(base, taken, base, 2)

\* The rank of a text of at most one character in localeCompare's order:
\* the empty text, white space, punctuation, then the letters, a lower-case
\* letter before its capital.
CollationRank(s) ==
    IF s = <<>> THEN 0
    ELSE CASE s[1] = " " -> 1
           [] s[1] = "!" -> 2
           [] s[1] = "a" -> 3
           [] s[1] = "A" -> 4
           [] OTHER -> 5

\* the comparator of sortLocations is negative
EntryBefore(a, b) ==
    \/ CollationRank(a.location) < CollationRank(b.location)
    \/ /\ CollationRank(a.location) = CollationRank(b.location)
       /\ CollationRank(a.venue) < CollationRank(b.venue)

\* sortLocations on entries: [...list].sort(by location, then venue), stable
RECURSIVE sortEntries(_)
sortEntries(list) ==
    IF Len(list) <= 1 THEN list
    ELSE LET rest == sortEntries(Tail(list))
             k == Cardinality({i \in 1..Len(rest) : EntryBefore(rest[i], Head(list))})
         IN SubSeq(rest, 1, k) \o <<Head(list)>> \o SubSeq(rest, k + 1, Len(rest))

\* What the user types into a location or a venue field.
Texts == {<<>>, <<" ">>, <<"!">>, <<"a">>, <<"A">>}

EmptyDraft == [id |-> <<>>, location |-> <<>>, venue |-> <<>>]

Screens == {"dashboard", "locations.json", "times.json", "repeating-events.json"}

\* The locations.json that was loaded, and the Dashboard as constructed.
InitialLocs ==
    [value |-> << [id |-> <<"a", "-", "a">>, location |-> <<"a">>, venue |-> <<"a">>] >>,
     screen |-> "dashboard", showAddModal |-> FALSE, editingLocationId |-> <<>>,
     draftLocation |-> EmptyDraft, generated |-> <<>>]

Generated(location, venue, id) == << [location |-> location, venue |-> venue, id |-> id] >>

\* The user changes the view or the selected file: the editor that was
\* shown unmounts, and a Dashboard that mounts starts from its initial state.
LocsShow(screen) ==
    /\ screen # locs.screen
    /\ locs' = [locs EXCEPT !.screen = screen, !.showAddModal = FALSE,
                            !.editingLocationId = <<>>, !.draftLocation = EmptyDraft,
                            !.generated = <<>>]
    /\ UNCHANGED <<storeVars, serverVars, clientVars, readVars, probe, polling>>

\* LocationsEditor.addEntry, and the onChange of App.tsx that sorts
addEntry ==
    /\ locs.screen = "locations.json"
    /\ Len(locs.value) < MaxLocs
    /\ locs' = [locs EXCEPT !.value = sortEntries(Append(locs.value, EmptyDraft)),
                            !.generated = <<>>]
    /\ UNCHANGED <<storeVars, serverVars, clientVars, readVars, probe, polling>>

\* LocationsEditor.update(index, {location}) or update(index, {venue})
update(index, field, text) ==
    /\ locs.screen = "locations.json"
    /\ index \in 1..Len(locs.value)
    /\ LET current == locs.value[index]
           updated == IF field = "location" THEN [current EXCEPT !.location = text]
                      ELSE [current EXCEPT !.venue = text]
           autoId == generateUniqueId(locs.value, updated.location, updated.venue, index)
           next == [locs.value EXCEPT ![index] = [updated EXCEPT !.id = autoId]]
       IN locs' = [locs EXCEPT !.value = sortEntries(next),
                               !.generated = Generated(updated.location, updated.venue, autoId)]
    /\ UNCHANGED <<storeVars, serverVars, clientVars, readVars, probe, polling>>

\* LocationsEditor.removeEntry(index)
removeEntry(index) ==
    /\ locs.screen = "locations.json"
    /\ index \in 1..Len(locs.value)
    /\ locs' = [locs EXCEPT !.value = sortEntries(SubSeq(locs.value, 1, index - 1)
                                          \o SubSeq(locs.value, index + 1, Len(locs.value))),
                            !.generated = <<>>]
    /\ UNCHANGED <<storeVars, serverVars, clientVars, readVars, probe, polling>>

\* commitCreateLocation of the TimesEditor (whose onCreateLocation sorts) and
\* of the RepeatingEventsEditor (whose onCreateLocation appends), with the
\* draft the user typed.
commitCreateLocation(location, venue) ==
    /\ locs.screen \in {"times.json", "repeating-events.json"}
    /\ Len(locs.value) < MaxLocs
    /\ LET id == generateUniqueId(locs.value, location, venue, 0)
           newLoc == [id |-> id, location |-> location, venue |-> venue]
           nextLocs == IF locs.screen = "times.json"
                         THEN sortEntries(Append(locs.value, newLoc))
                         ELSE Append(locs.value, newLoc)
       IN locs' = [locs EXCEPT !.value = nextLocs,
                               !.generated = Generated(location, venue, id)]
    /\ UNCHANGED <<storeVars, serverVars, clientVars, readVars, probe, polling>>

\* Dashboard.addLocation
addLocation ==
    /\ locs.screen = "dashboard"
    /\ ~locs.showAddModal
    /\ locs' = [locs EXCEPT !.showAddModal = TRUE, !.editingLocationId = <<>>,
                            !.draftLocation = EmptyDraft, !.generated = <<>>]
    /\ UNCHANGED <<storeVars, serverVars, clientVars, readVars, probe, polling>>

\* Dashboard.openLocationForEdit(loc.id); the button is rendered for the
\* entries whose id is not empty.
openLocationForEdit(index) ==
    /\ locs.screen = "dashboard"
    /\ ~locs.showAddModal
    /\ index \in 1..Len(locs.value)
    /\ locs.value[index].id # <<>>
    /\ LET locationId == locs.value[index].id
           loc == locs.value[CHOOSE i \in 1..Len(locs.value) :
                                /\ locs.value[i].id = locationId
                                /\ \A j \in 1..(i - 1) : locs.value[j].id # locationId]
       IN locs' = [locs EXCEPT !.showAddModal = TRUE, !.editingLocationId = <<locationId>>,
                               !.draftLocation = loc, !.generated = <<>>]
    /\ UNCHANGED <<storeVars, serverVars, clientVars, readVars, probe, polling>>

\* !editingLocationId
NotEditing(l) == l.editingLocationId = <<>> \/ l.editingLocationId[1] = <<>>

\* The onChange of the modal's Location and Venue inputs.
DraftChange(field, text) ==
    /\ locs.screen = "dashboard"
    /\ locs.showAddModal
    /\ LET prev == locs.draftLocation
           changed == IF field = "location" THEN [prev EXCEPT !.location = text]
                      ELSE [prev EXCEPT !.venue = text]
           other == IF field = "location" THEN prev.venue ELSE prev.location
           generates == NotEditing(locs) /\ text # <<>> /\ other # <<>>
           id == generateUniqueId(locs.value, changed.location, changed.venue, 0)
       IN locs' = [locs EXCEPT
                     !.draftLocation = IF generates THEN [changed EXCEPT !.id = id]
                                       ELSE IF NotEditing(locs) THEN [changed EXCEPT !.id = <<>>]
                                       ELSE changed,
                     !.generated = IF generates
                                     THEN Generated(changed.location, changed.venue, id)
                                     ELSE <<>>]
    /\ UNCHANGED <<storeVars, serverVars, clientVars, readVars, probe, polling>>

\* The Cancel button of the modal.
CancelModal ==
    /\ locs.screen = "dashboard"
    /\ locs.showAddModal
    /\ locs' = [locs EXCEPT !.showAddModal = FALSE, !.editingLocationId = <<>>,
                            !.draftLocation = EmptyDraft, !.generated = <<>>]
    /\ UNCHANGED <<storeVars, serverVars, clientVars, readVars, probe, polling>>

\* list.filter(l => l.id !== id)
WithoutId(list, id) == LET other(l) == l.id # id IN SelectSeq(list, other)

\* locations.find(l => l.id === id), as <<>> or <<l>>
FindById(list, id) ==
    LET same(l) == l.id = id
        found == SelectSeq(list, same)
    IN IF found = <<>> THEN <<>> ELSE <<Head(found)>>

\* Dashboard.saveLocation
saveLocation ==
    /\ locs.screen = "dashboard"
    /\ locs.showAddModal
    /\ (locs.editingLocationId = <<>>) => Len(locs.value) < MaxLocs
    /\ LET draft == locs.draftLocation
           closed == [locs EXCEPT !.showAddModal = FALSE, !.editingLocationId = <<>>,
                                  !.draftLocation = EmptyDraft, !.generated = <<>>]
       IN IF trim(draft.location) = <<>> \/ trim(draft.venue) = <<>>
            THEN locs' = [locs EXCEPT !.generated = <<>>]
          ELSE IF locs.editingLocationId # <<>>
            THEN LET oldId == locs.editingLocationId[1]
                     oldLocation == FindById(locs.value, oldId)
                     regenerate ==
                         /\ oldLocation # <<>>
                         /\ \/ oldLocation[1].location # draft.location
                            \/ oldLocation[1].venue # draft.venue
                     newId == IF regenerate
                                THEN generateUniqueId(WithoutId(locs.value, oldId),
                                                      draft.location, draft.venue, 0)
                                ELSE draft.id
                     updatedLocation == [draft EXCEPT !.id = newId]
                     nextLocations == [i \in 1..Len(locs.value) |->
                                          IF locs.value[i].id = oldId THEN updatedLocation
                                          ELSE locs.value[i]]
                 IN locs' = [closed EXCEPT
                               !.value = sortEntries(nextLocations),
                               !.generated = IF regenerate
                                               THEN Generated(draft.location, draft.venue, newId)
                                               ELSE <<>>]
          ELSE LET id == generateUniqueId(locs.value, draft.location, draft.venue, 0)
               IN locs' = [closed EXCEPT
                             !.value = sortEntries(Append(locs.value, [draft EXCEPT !.id = id])),
                             !.generated = Generated(draft.location, draft.venue, id)]
    /\ UNCHANGED <<storeVars, serverVars, clientVars, readVars, probe, polling>>

\* Dashboard.removeLocation(indexInSorted), as far as locations.json goes
RemoveLocationEntry(indexInSorted) ==
    /\ locs.screen = "dashboard"
    /\ ~locs.showAddModal
    /\ indexInSorted \in 1..Len(locs.value)
    /\ LET sorted == sortEntries(locs.value)
           k == CHOOSE i \in 1..Len(locs.value) :
                   /\ locs.value[i] = sorted[indexInSorted]
                   /\ Cardinality({j \in 1..i : locs.value[j] = sorted[indexInSorted]})
                        = Cardinality({j \in 1..indexInSorted : sorted[j] = sorted[indexInSorted]})
       IN locs' = [locs EXCEPT !.value = sortEntries(SubSeq(locs.value, 1, k - 1)
                                             \o SubSeq(locs.value, k + 1, Len(locs.value))),
                               !.generated = <<>>]
    /\ UNCHANGED <<storeVars, serverVars, clientVars, readVars, probe, polling>>

(***************************************************************************)
(* The ActionsStatus component: its effect polls /api/actions/latest.      *)
(* Every mount runs the effect once, and the run has its own cancelled     *)
(* flag and timer.                                                         *)
(*   mounted    the component is on the page                               *)
(*   effects    per mount: cancelled, timer (a timeout is scheduled), and  *)
(*              request (a GET is in flight)                               *)
(*   run, error the state of the mounted component                         *)
(*   nPolls     a counter: the requests issued                             *)
(***************************************************************************)
MaxMounts == 2

MaxPolls == 3

\* resp.data.run, as its status
Runs == {"null", "in_progress", "completed"}

InitialPolling ==
    [mounted |-> FALSE, effects |-> <<>>, run |-> "null", error |-> FALSE, nPolls |-> 0]

\* The component mounts: the effect runs and calls load(), which issues the
\* first GET.
StatusMount ==
    /\ ~polling.mounted
    /\ Len(polling.effects) < MaxMounts
    /\ polling.nPolls < MaxPolls
    /\ polling' = [polling EXCEPT
                     !.mounted = TRUE,
                     !.effects = Append(@, [cancelled |-> FALSE, timer |-> FALSE,
                                            request |-> TRUE]),
                     !.run = "null", !.error = FALSE, !.nPolls = @ + 1]
    /\ UNCHANGED <<storeVars, serverVars, clientVars, readVars, probe, locs>>

\* The state setters of an effect reach the component of its own mount.
Shown(i) == polling.mounted /\ i = Len(polling.effects)

\* The GET of effect i resolves: the try block, then the finally block.
StatusResolved(i, run) ==
    /\ i \in 1..Len(polling.effects)
    /\ polling.effects[i].request
    /\ polling' = [polling EXCEPT
                     !.effects[i].request = FALSE,
                     !.effects[i].timer = TRUE,
                     !.run = IF ~polling.effects[i].cancelled /\ Shown(i) THEN run ELSE @,
                     !.error = IF ~polling.effects[i].cancelled /\ Shown(i) THEN FALSE ELSE @]
    /\ UNCHANGED <<storeVars, serverVars, clientVars, readVars, probe, locs>>

\* The GET of effect i rejects: the catch block, then the finally block.
StatusRejected(i) ==
    /\ i \in 1..Len(polling.effects)
    /\ polling.effects[i].request
    /\ polling' = [polling EXCEPT
                     !.effects[i].request = FALSE,
                     !.effects[i].timer = TRUE,
                     !.error = IF Shown(i) THEN TRUE ELSE @]
    /\ UNCHANGED <<storeVars, serverVars, clientVars, readVars, probe, locs>>

\* The timeout of effect i fires: load() issues the next GET.
StatusTimer(i) ==
    /\ i \in 1..Len(polling.effects)
    /\ polling.effects[i].timer
    /\ polling.nPolls < MaxPolls
    /\ polling' = [polling EXCEPT
                     !.effects[i].timer = FALSE,
                     !.effects[i].request = TRUE,
                     !.nPolls = @ + 1]
    /\ UNCHANGED <<storeVars, serverVars, clientVars, readVars, probe, locs>>

\* The component unmounts: the cleanup of its effect.
StatusUnmount ==
    /\ polling.mounted
    /\ polling' = [polling EXCEPT
                     !.mounted = FALSE,
                     !.effects[Len(polling.effects)].cancelled = TRUE,
                     !.effects[Len(polling.effects)].timer = FALSE]
    /\ UNCHANGED <<storeVars, serverVars, clientVars, readVars, probe, locs>>

(***************************************************************************)
(* The server and the store.                                               *)
(***************************************************************************)
InitStore ==
    /\ commits = << [tree |-> InitialTree, parents |-> <<>>, message |-> "initial"] >>
    /\ branch = 1
    /\ refLog = <<>>

InitServer ==
    /\ hs = [h \in Handlers |-> IdleCall]
    /\ legacy = IdleLegacy
    /\ nCalls = 0
    /\ nExternal = 0
    /\ nLegacy = 0
    /\ auth = InitialAuth

InitClient ==
    /\ stateByFile = <<>>
    /\ pushing = FALSE
    /\ push = IdlePush
    /\ nEdits = 0
    /\ nPushes = 0
    /\ aboutEditor = InitialEditor
    /\ ui = InitialUi

InitRead ==
    /\ fileCall = IdleFileCall
    /\ load = IdleLoad
    /\ nLoads = 0

InitProbe == probe = [kind |-> "none"]

InitPage ==
    /\ locs = InitialLocs
    /\ polling = InitialPolling

Init == InitStore /\ InitServer /\ InitClient /\ InitRead /\ InitProbe /\ InitPage

\* The requests whose every file has a path and a list or a document as content.
WellFormedRequests ==
    { r \in BatchRequests :
        /\ FilesProvided(r.body)
        /\ \A i \in 1..Len(r.body.files.items) :
              /\ HasField(r.body.files.items[i], "path")
              /\ r.body.files.items[i].content.t \in {"array", "object"} }

\* The well-formed requests two racing callers send.
RaceRequests ==
    { r \in BatchRequests :
        /\ FilesProvided(r.body)
        /\ HasField(r.body, "commitMessage")
        /\ \A i \in 1..Len(r.body.files.items) :
              /\ HasField(r.body.files.items[i], "path")
              /\ r.body.files.items[i].content.t \in {"array", "object"} }

BatchNext(H, requests, maxCalls) ==
    \/ \E h \in H, r \in requests : BatchReceive(h, r, maxCalls)
    \/ \E h \in H : BatchGetRef(h)
    \/ \E h \in H : BatchGetCommit(h)
    \/ \E h \in H : BatchOldContents(h)
    \/ \E h \in H, i \in 1..2 : BatchBlobDone(h, i)
    \/ \E h \in H, i \in 1..2 : BatchBlobFail(h, i)
    \/ \E h \in H : BatchTree(h)
    \/ \E h \in H : BatchCommit(h)
    \/ \E h \in H : BatchUpdateRef(h)
    \/ \E h \in H : BatchFinish(h)

LegacyNext ==
    \/ \E b \in LegacyRequests : LegacyReceive(b)
    \/ LegacyHead
    \/ LegacyPut
    \/ AboutGetReceive
    \/ AboutGetAnswer
    \/ LegacyFinish

ExternalNext ==
    \E w \in ExternalWrites : ExternalPush(w.path, w.text)

\* One batch call at a time, any request, beside an outside writer.
Next == BatchNext({"h1"}, BatchRequests, MaxCalls) \/ ExternalNext

Spec == Init /\ [][Next]_vars

\* Two callers, one batch call each, beside an outside writer of about.json.
NextRace ==
    \/ BatchNext(Handlers, RaceRequests, Cardinality(Handlers))
    \/ \E w \in ExternalWrites : w.path = AboutPath /\ ExternalPush(w.path, w.text)

SpecRace == Init /\ [][NextRace]_vars

\* The legacy routes beside one batch call at a time.
NextLegacy == LegacyNext \/ BatchNext({"h1"}, RaceRequests, MaxCalls)

SpecLegacy == Init /\ [][NextLegacy]_vars

\* The client: loads, edits and pushes.
NextClient ==
    \/ \E n \in ClientFiles : \E c \in ClientContents(n) : ClientLoaded(n, c)
    \/ \E n \in ClientFiles : \E c \in ClientContents(n) : ClientEdit(n, c)
    \/ PushStart
    \/ PushResolved
    \/ \E d \in {"Update is not a fast forward", "upstream error"} : PushRejected(d)

SpecClient == Init /\ [][NextClient]_vars

\* The post of a push settles: axios resolves or rejects its promise.
PushSettles ==
    \/ PushResolved
    \/ \E d \in {"Update is not a fast forward", "upstream error"} : PushRejected(d)

\* The client, with every post settling at some time.
SpecClientLive == SpecClient /\ WF_vars(PushSettles)

\* File reads: the client's loads and another caller's, beside an outside writer.
NextRead ==
    \/ \E n \in LoadFiles : LoadStart(n)
    \/ \E n \in FileNames, c \in BOOLEAN : FileReceive(n, c)
    \/ FileAnswer
    \/ FileFinish
    \/ LoadLanded
    \/ ExternalNext

SpecRead == Init /\ [][NextRead]_vars

\* The files of a session, and what its editors set about.json to.
SessionFiles == {"about.json"}

\* A session: loads through the file route, edits, pushes through the batch
\* handler, beside an outside writer of about.json.
NextSession ==
    \/ \E n \in SessionFiles : SessionLoad(n)
    \/ \E c \in ClientContents("about.json") : ClientEdit("about.json", c)
    \/ PushStart
    \/ SessionPost
    \/ BatchGetRef("h1")
    \/ BatchGetCommit("h1")
    \/ BatchOldContents("h1")
    \/ \E i \in 1..2 : BatchBlobDone("h1", i)
    \/ \E i \in 1..2 : BatchBlobFail("h1", i)
    \/ BatchTree("h1")
    \/ BatchCommit("h1")
    \/ BatchUpdateRef("h1")
    \/ SessionSettle
    \/ \E w \in ExternalWrites : w.path = AboutPath /\ ExternalPush(w.path, w.text)

SpecSession == Init /\ [][NextSession]_vars

\* The requests of the sessions: one file, by either user.
AuthRequests ==
    { [user |-> id,
       body |-> [files |-> Arr(<< [path |-> AboutPath, content |-> Doc("T2", <<"s1">>)] >>),
                 commitMessage |-> "msg"]] : id \in UserIds }

\* Logins, the admin's user routes, and batch calls of the sessions.
NextAuth ==
    \/ \E id \in UserIds, g \in AnonHashes : Login(id, g)
    \/ \E id \in UserIds : Logout(id)
    \/ \E a \in UserIds, id \in UserIds, role \in {"admin", "editor"} : AdminAddUser(a, id, role)
    \/ \E a \in UserIds, id \in UserIds, role \in {"admin", "editor"} :
          AdminUpdateRole(a, id, role)
    \/ \E a \in UserIds, id \in UserIds : AdminRemoveUser(a, id)
    \/ \E r \in AuthRequests : BatchOfSession("h1", r, MaxCalls)
    \/ BatchGetRef("h1")
    \/ BatchGetCommit("h1")
    \/ BatchOldContents("h1")
    \/ \E i \in 1..2 : BatchBlobDone("h1", i)
    \/ \E i \in 1..2 : BatchBlobFail("h1", i)
    \/ BatchTree("h1")
    \/ BatchCommit("h1")
    \/ BatchUpdateRef("h1")
    \/ BatchFinish("h1")

SpecAuth == Init /\ [][NextAuth]_vars

\* The location editors.
NextLocs ==
    \/ \E screen \in Screens : LocsShow(screen)
    \/ addEntry
    \/ \E i \in 1..MaxLocs, f \in {"location", "venue"}, t \in Texts : update(i, f, t)
    \/ \E i \in 1..MaxLocs : removeEntry(i)
    \/ \E l \in Texts, v \in Texts : commitCreateLocation(l, v)
    \/ addLocation
    \/ \E i \in 1..MaxLocs : openLocationForEdit(i)
    \/ \E f \in {"location", "venue"}, t \in Texts : DraftChange(f, t)
    \/ CancelModal
    \/ saveLocation
    \/ \E i \in 1..MaxLocs : RemoveLocationEntry(i)

SpecLocs == Init /\ [][NextLocs]_vars

\* The ActionsStatus component, mounted and unmounted while its GETs settle.
NextStatus ==
    \/ StatusMount
    \/ \E i \in 1..MaxMounts, run \in Runs : StatusResolved(i, run)
    \/ \E i \in 1..MaxMounts : StatusRejected(i)
    \/ \E i \in 1..MaxMounts : StatusTimer(i)
    \/ StatusUnmount

SpecStatus == Init /\ [][NextStatus]_vars

\* The view, its effects and their fetches against a store nobody writes.
NextLazy ==
    \/ LazyFlush
    \/ \E e \in Effects : LazyLand(e)
    \/ \E e \in Effects : LazyFail(e)
    \/ \E n \in LazyFiles : LazyEdit(n)
    \/ \E n \in LazyFiles : LazySelect(n)
    \/ \E v \in Views : LazySetView(v)

SpecLazy == Init /\ [][NextLazy]_vars

\* The view and its effects when every GET is answered with 200.
NextLoading ==
    \/ LazyFlush
    \/ \E e \in Effects : LazyLand(e)
    \/ \E n \in LazyFiles : LazyEdit(n)
    \/ \E n \in LazyFiles : LazySelect(n)
    \/ \E v \in Views : LazySetView(v)

\* A step of the effects: React runs those that are due, or a fetch lands.
EffectsStep == LazyFlush \/ \E e \in Effects : LazyLand(e)

\* React runs the effects that are due, and the fetches are answered.
SpecLoading == Init /\ [][NextLoading]_vars /\ WF_vars(EffectsStep)

\* The AboutEditor, its server routes, and an outside writer.
NextAbout ==
    \/ EditorLoadStart
    \/ AboutGetAnswer
    \/ EditorLoaded
    \/ \E c \in AboutContents : EditorEdit(c)
    \/ EditorSave
    \/ LegacyHead
    \/ LegacyPut
    \/ EditorSaved
    \/ ExternalNext

SpecAbout == Init /\ [][NextAbout]_vars

\* The list editors: the loads of the list files, and the two ways to
\* remove a location.
NextEditors ==
    \/ \E n \in DependentFiles \cup {"locations.json"} : ClientLoaded(n, EditorContents(n))
    \/ \E i \in 1..2 : DashboardRemoveLocation(i)
    \/ \E i \in 1..2 : LocationsEditorRemoveEntry(i)

SpecEditors == Init /\ [][NextEditors]_vars

\* The pure functions on drawn inputs.
NextProbe ==
    \/ \E old \in ProbeValues, new \in ProbeValues, path \in ProbePaths :
          ProbeReport(old, new, path)
    \/ \E n \in ProbeNames : ProbeDefault(n)
    \/ \E u \in SessionUsers, v \in SessionUsers, r \in WellFormedRequests,
          old \in {Arr(<<>>), Doc("T1", <<"s1">>)} :
          ProbeMessage(u, v, r.body, old)

SpecProbe == Init /\ [][NextProbe]_vars

(***************************************************************************)
(* Properties.                                                             *)
(***************************************************************************)
\* The ref after the store processed the i-th ref update of the log.
RefAfter(i) == IF refLog[i].ok THEN refLog[i].to ELSE refLog[i].from

\* The branch moves only through the ref updates the store processed.
BranchFollowsLog ==
    /\ \A i \in 1..Len(refLog) :
          refLog[i].from = (IF i = 1 THEN 1 ELSE RefAfter(i - 1))
    /\ branch = (IF Len(refLog) = 0 THEN 1 ELSE RefAfter(Len(refLog)))

\* The accepted ref updates of the batch call with this id.
RefMovesOf(id) ==
    {i \in 1..Len(refLog) :
        refLog[i].by.kind = "batch" /\ refLog[i].by.id = id /\ refLog[i].ok}

\* A request with at least one file.
HasFiles(body) ==
    /\ "files" \in DOMAIN body
    /\ body.files.t = "array"
    /\ body.files.items # <<>>

\* In commit c every requested path holds exactly the requested content.
RequestLandedIn(call, c) ==
    \A k \in 1..Len(call.body.files.items) :
       LET f == call.body.files.items[k] IN
       /\ "path" \in DOMAIN f
       /\ f.path \in Paths
       /\ commits[c].tree[f.path] # NoFile
       /\ ParseJson(Tail(commits[c].tree[f.path])) = [ok |-> TRUE, value |-> f.content]

C1_Answered ==
    \A h \in Handlers :
       (hs[h].pc = "done" /\ HasFiles(hs[h].body)) =>
          IF hs[h].resp.status = 200
            THEN /\ hs[h].resp.ok
                 /\ \E i \in RefMovesOf(hs[h].id) :
                       /\ refLog[i].to = hs[h].resp.commitSha
                       /\ RequestLandedIn(hs[h], refLog[i].to)
            ELSE RefMovesOf(hs[h].id) = {}

\* A step of call h that moves the branch is its accepted ref update.
C1_Step ==
    \A h \in Handlers :
       (hs'[h] # hs[h] /\ branch' # branch) =>
          /\ hs[h].pc = "updateRef"
          /\ hs'[h].pc = "done"
          /\ hs'[h].resp.status = 200
          /\ branch' = hs'[h].resp.commitSha

\* C1: atomicity of commitBatch.  A call with at least one file that answers
\* success has set the branch to the commit it returns, whose tree maps every
\* requested path to exactly the requested content; a call that answers
\* failure has not moved the branch, and no step of a call other than its
\* accepted ref update moves the branch.
C1_Atomicity == [][C1_Answered' /\ BranchFollowsLog' /\ C1_Step]_vars

\* C1 witness: a two-file call answered success, and the branch is its commit.
C1_Witness ==
    \E h \in Handlers :
       /\ hs[h].pc = "done"
       /\ hs[h].resp.status = 200
       /\ Len(hs[h].body.files.items) = 2
       /\ branch = hs[h].resp.commitSha

\* C2: conflict detection.  A ref update of a batch call that arrives after
\* the branch has moved away from the tip the call read is refused: the call
\* answers failure (the store's 422), the branch stays where the other writer
\* put it, and the call's commit is never reachable from the branch.
C2_ConflictDetected ==
    /\ BranchFollowsLog
    /\ \A i \in 1..Len(refLog) :
          (refLog[i].by.kind = "batch" /\ refLog[i].from # refLog[i].tip) =>
             /\ ~refLog[i].ok
             /\ RefAfter(i) = refLog[i].from
             /\ refLog[i].to \notin AncestorsOrSelf(commits, branch)
             /\ \A h \in Handlers :
                   (hs[h].id = refLog[i].by.id /\ hs[h].pc = "done") =>
                      /\ hs[h].resp.status = 422
                      /\ hs[h].resp.details = [body |-> "Update is not a fast forward"]

\* C2 witness: a call whose ref update was refused because an outside writer
\* moved the branch after the call read the tip; the branch is that writer's.
C2_Witness ==
    \E i \in 1..Len(refLog) :
       /\ refLog[i].by.kind = "batch" /\ ~refLog[i].ok
       /\ refLog[i].from # refLog[i].tip
       /\ branch = refLog[i].from
       /\ \E h \in Handlers : hs[h].id = refLog[i].by.id /\ hs[h].pc = "done"

\* Two ref updates of different batch calls that read the same tip, the
\* first of which found the branch still at that tip.
RacingPairs ==
    {pr \in (1..Len(refLog)) \X (1..Len(refLog)) :
        /\ pr[1] < pr[2]
        /\ refLog[pr[1]].by.kind = "batch" /\ refLog[pr[2]].by.kind = "batch"
        /\ refLog[pr[1]].by.id # refLog[pr[2]].by.id
        /\ refLog[pr[1]].tip = refLog[pr[2]].tip
        /\ refLog[pr[1]].from = refLog[pr[1]].tip}

StatusOfCall(id, status) ==
    \A h \in Handlers : (hs[h].id = id /\ hs[h].pc = "done") => hs[h].resp.status = status

\* C3: no mutual exclusion between batch calls.  Of two calls that read the
\* same tip and both reach the ref update, the first to reach it (the branch
\* still being at that tip) moves the branch to its commit and answers
\* success; the second is refused (422), leaves the branch as it found it,
\* which is the first call's commit when nobody wrote in between; never do
\* both succeed.
C3_OneWinner ==
    /\ BranchFollowsLog
    /\ \A pr \in RacingPairs :
          LET first == refLog[pr[1]]
              second == refLog[pr[2]]
          IN /\ first.ok
             /\ RefAfter(pr[1]) = first.to
             /\ StatusOfCall(first.by.id, 200)
             /\ ~second.ok
             /\ RefAfter(pr[2]) = second.from
             /\ StatusOfCall(second.by.id, 422)
             /\ (pr[2] = pr[1] + 1 => RefAfter(pr[2]) = first.to)
    /\ \A i, j \in 1..Len(refLog) :
          (/\ i # j
           /\ refLog[i].by.kind = "batch" /\ refLog[j].by.kind = "batch"
           /\ refLog[i].tip = refLog[j].tip) => ~(refLog[i].ok /\ refLog[j].ok)

\* C3 witness: two calls read the same tip; the first has moved the branch,
\* the second has just been refused and the branch is the first's commit.
C3_Witness ==
    \E pr \in RacingPairs :
       /\ pr[2] = Len(refLog)
       /\ branch = refLog[pr[1]].to
       /\ \E h \in Handlers :
             /\ hs[h].id = refLog[pr[2]].by.id
             /\ hs[h].pc = "done"
             /\ hs[h].resp.status = 422

\* The steps that move the branch.
BatchMovesRef ==
    \E h \in Handlers :
       /\ hs[h].pc = "updateRef"
       /\ hs'[h].pc = "done"
       /\ hs'[h].resp.status = 200
       /\ branch' = hs'[h].resp.commitSha

LegacyMovesRef ==
    /\ legacy.pc = "put"
    /\ legacy'.pc = "done"
    /\ legacy'.resp.status = 200
    /\ branch' = legacy'.resp.commit

OutsideWriterMovesRef == nExternal' = nExternal + 1

\* C4 as stated: of the server's routes only the batch handler moves the
\* branch (the writer outside the server aside).
C4_OnlyBatchMovesRef ==
    [][branch' # branch => (BatchMovesRef \/ OutsideWriterMovesRef)]_vars

\* C4 amended: of the server's routes, the batch handler's accepted ref
\* update and the legacy POST /api/about's accepted PUT are the only steps
\* that move the branch; no other step of any route does (the writer outside
\* the server aside).
C4_BatchOrLegacyMovesRef ==
    [][branch' # branch => (BatchMovesRef \/ LegacyMovesRef \/ OutsideWriterMovesRef)]_vars

\* C4 witness: the legacy route has moved the branch to its own commit.
C4_Witness ==
    /\ legacy.pc = "done"
    /\ legacy.resp.status = 200
    /\ "commit" \in DOMAIN legacy.resp
    /\ branch = legacy.resp.commit
    /\ \E i \in 1..Len(refLog) : refLog[i].by.kind = "legacy" /\ refLog[i].ok

CountOf(seq, k) == Cardinality({i \in 1..Len(seq) : seq[i] = k})

\* The calls a call must not have issued once the given step has failed.
CallsAfter(step) ==
    CASE step = "validate"    -> {"getRef", "getCommit", "getContents", "postBlob",
                                  "postTree", "postCommit", "patchRef"}
      [] step = "getRef"      -> {"getCommit", "getContents", "postBlob", "postTree",
                                  "postCommit", "patchRef"}
      [] step = "getCommit"   -> {"getContents", "postBlob", "postTree", "postCommit",
                                  "patchRef"}
      [] step = "oldContents" -> {"postBlob", "postTree", "postCommit", "patchRef"}
      [] step = "report"      -> {"postBlob", "postTree", "postCommit", "patchRef"}
      [] step = "blobs"       -> {"postTree", "postCommit", "patchRef"}
      [] step = "tree"        -> {"postCommit", "patchRef"}
      [] step = "commit"      -> {"patchRef"}
      [] OTHER                -> {}

C5_State ==
    \A h \in Handlers :
       /\ \A k \in {"getRef", "getCommit", "postTree", "postCommit", "patchRef"} :
             CountOf(hs[h].calls, k) <= 1
       /\ hs[h].failedAt # "none" =>
             /\ hs[h].pc = "done"
             /\ hs[h].resp.status # 200
             /\ \A k \in CallsAfter(hs[h].failedAt) : CountOf(hs[h].calls, k) = 0

\* An answered call issues nothing more: it stays as it is until its slot
\* takes the next request.
C5_Step ==
    \A h \in Handlers :
       hs[h].pc = "done" => (hs'[h] = hs[h] \/ hs'[h].pc = "idle")

\* C5: nothing is retried.  Per call the tip read, the commit read, the tree
\* creation, the commit creation and the ref update are issued at most once;
\* once a step has failed the call has answered failure, has issued none of
\* the calls that come after that step, and issues nothing afterwards.
C5_NoRetry == [][C5_State' /\ C5_Step]_vars

\* C5 witness: a call whose tree creation failed has answered the failure
\* having issued neither the commit creation nor the ref update.
C5_Witness ==
    \E h \in Handlers :
       /\ hs[h].pc = "done"
       /\ hs[h].failedAt = "tree"
       /\ hs[h].resp.status = 503
       /\ CountOf(hs[h].calls, "postTree") = 1

\* A request whose files field is absent, not a list, or an empty list.
NoFilesGiven(body) ==
    \/ "files" \notin DOMAIN body
    \/ body.files.t # "array"
    \/ body.files.items = <<>>

\* C8: a batch request whose files field is absent, not a list or an empty
\* list is answered 400 ('No files provided') and no remote-store call, not
\* even the tip read, is issued for it.
C8_NoFilesRejected ==
    \A h \in Handlers :
       (hs[h].pc # "idle" /\ NoFilesGiven(hs[h].body)) =>
          /\ hs[h].pc = "done"
          /\ hs[h].resp.status = 400
          /\ hs[h].resp.error = "No files provided"
          /\ hs[h].calls = <<>>
          /\ RefMovesOf(hs[h].id) = {}

\* C8 witness: a request with an empty files list has been answered 400.
C8_Witness ==
    \E h \in Handlers :
       /\ hs[h].pc = "done"
       /\ "files" \in DOMAIN hs[h].body
       /\ hs[h].body.files = [t |-> "array", items |-> <<>>]
       /\ hs[h].resp.status = 400

\* A request with a non-empty files list one of whose entries has no path,
\* or a content that is neither an object nor an array.
MalformedFiles(body) ==
    /\ HasFiles(body)
    /\ \E k \in 1..Len(body.files.items) :
          \/ "path" \notin DOMAIN body.files.items[k]
          \/ body.files.items[k].content.t \notin {"array", "object"}

\* C9 as stated: a malformed request with a non-empty files list is answered
\* 400 before any remote-store call is issued.
C9_MalformedRejected ==
    \A h \in Handlers :
       (hs[h].pc # "idle" /\ MalformedFiles(hs[h].body)) =>
          /\ hs[h].calls = <<>>
          /\ hs[h].pc = "done" => hs[h].resp.status = 400

\* The default skeleton of the three paths of the repository.
ExpectedSkeleton(path) ==
    IF path \in {LocationsPath, LivePath}
      THEN [t |-> "array", items |-> <<>>]
      ELSE [t |-> "object", title |-> "", sections |-> <<>>]

AllHavePath(body) ==
    \A k \in 1..Len(body.files.items) :
       /\ "path" \in DOMAIN body.files.items[k]
       /\ body.files.items[k].content.t # "null"

\* C10: a failed fetch of a requested file's remote content never blocks the
\* commit.  Once the fetches of a call (all of whose files have a path and a
\* content that is not null) have
\* settled, the call has gone on to the blob creations whatever the fetches
\* ended with, and a file whose fetch failed (404, another upstream error, or
\* content that is not JSON) is compared against the default skeleton of its
\* path; the old-content step is never the step a call fails at.
C10_FetchFailureTolerated ==
    \A h \in Handlers :
       (hs[h].fetched # <<>> /\ AllHavePath(hs[h].body)) =>
          /\ hs[h].failedAt # "oldContents"
          /\ CountOf(hs[h].calls, "postBlob") = Len(hs[h].body.files.items)
          /\ \A k \in 1..Len(hs[h].fetched) :
                hs[h].fetched[k] # "ok" =>
                   /\ hs[h].oldContents[k].content =
                         ExpectedSkeleton(hs[h].body.files.items[k].path)
                   /\ hs[h].oldContents[k].path = hs[h].body.files.items[k].path
          /\ hs[h].changeReports =
                ChangeReportsOf(hs[h].body.files.items,
                   [k \in 1..Len(hs[h].fetched) |->
                      IF hs[h].fetched[k] = "ok" THEN hs[h].oldContents[k]
                      ELSE [content |->
                              ExpectedSkeleton(hs[h].body.files.items[k].path)]])

\* C10 witness: a two-file call one of whose old contents was not JSON and
\* the other absent has landed its commit.
C10_Witness ==
    \E h \in Handlers :
       /\ hs[h].pc = "done"
       /\ hs[h].resp.status = 200
       /\ hs[h].fetched = <<"badjson", "notfound">>
       /\ branch = hs[h].resp.commitSha

\* The step in which a push ends in failure.
PushFails == push.pc = "awaiting" /\ (push.outcome = "failed")'

\* C6: a failed push leaves the edit buffer untouched.  The step that handles
\* the failure changes no entry; when nothing else touched the buffer during
\* the push, every file has the content and the dirty flag it had when the
\* push started, and the dirty files are the ones that were sent.
C6_FailedPushKeepsBuffer ==
    [][PushFails =>
         /\ stateByFile' = stateByFile
         /\ ~pushing'
         /\ (~push.touched =>
               /\ stateByFile' = push.snapshot
               /\ FilesPayload(stateByFile') = push.payload)]_vars

\* C6 witness: a push of two dirty files has failed, nothing else having
\* touched the buffer meanwhile.
C6_Witness ==
    /\ push.outcome = "failed"
    /\ Len(push.payload) = 2
    /\ ~push.touched
    /\ \A i \in 1..Len(stateByFile) : stateByFile[i].dirty

\* The step in which a push ends with an answer that carries a commit id.
PushSucceeds == push.pc = "awaiting" /\ (push.outcome = "ok")'

\* C7: after a push whose answer carries a commit id every file sent in the
\* batch is clean, and the mark-clean step changes no entry's content (nor
\* its name, its sha, or the set of entries).
C7_PushedFilesClean ==
    [][PushSucceeds =>
         /\ \A k \in 1..Len(push.payload) :
               \E i \in 1..Len(stateByFile') :
                  /\ <<"data", stateByFile'[i].name>> = push.payload[k].path
                  /\ ~stateByFile'[i].dirty
         /\ Len(stateByFile') = Len(stateByFile)
         /\ \A i \in 1..Len(stateByFile) :
               /\ stateByFile'[i].name = stateByFile[i].name
               /\ stateByFile'[i].content = stateByFile[i].content
               /\ stateByFile'[i].sha = stateByFile[i].sha]_vars

\* C7 witness: a push of two files has succeeded and both are clean.
C7_Witness ==
    /\ push.outcome = "ok"
    /\ Len(push.payload) = 2
    /\ ~push.touched
    /\ \A i \in 1..Len(stateByFile) : ~stateByFile[i].dirty

\* The paths a request names.
RequestedPaths(body) ==
    {body.files.items[k].path : k \in 1..Len(body.files.items)}

\* C11: the tree of a batch call has exactly one entry per file of the
\* request, changed or not, in the request's order, and is based on the tree
\* of the tip the call read: in the new tree, and in the commit of a call that
\* answered success, every path the request does not name holds what it holds
\* in that tip's commit.
C11_UnlistedPathsInherited ==
    \A h \in Handlers :
       CountOf(hs[h].calls, "postCommit") = 1 =>
          /\ CountOf(hs[h].calls, "postTree") = 1
          /\ Len(TreeEntriesOf(hs[h])) = Len(hs[h].body.files.items)
          /\ \A k \in 1..Len(hs[h].body.files.items) :
                TreeEntriesOf(hs[h])[k].path = hs[h].body.files.items[k].path
          /\ \A p \in Paths \ RequestedPaths(hs[h].body) :
                hs[h].newTreeSha[p] = commits[hs[h].latestCommitSha].tree[p]
          /\ (hs[h].pc = "done" /\ hs[h].resp.status = 200) =>
                \A p \in Paths \ RequestedPaths(hs[h].body) :
                   commits[hs[h].resp.commitSha].tree[p]
                      = commits[hs[h].latestCommitSha].tree[p]

\* C11 witness: a call that names only locations.json has landed on top of
\* an outside writer's commit, whose about.json its commit still holds.
C11_Witness ==
    \E h \in Handlers :
       /\ hs[h].pc = "done"
       /\ hs[h].resp.status = 200
       /\ RequestedPaths(hs[h].body) = {LocationsPath}
       /\ hs[h].latestCommitSha > 1
       /\ commits[hs[h].resp.commitSha].tree[AboutPath]
             = <<"blob">> \o StringifyJson(Doc("TX", <<"s1">>))

\* The calls that have composed their commit message.
Composed(h) == CountOf(hs[h].calls, "postCommit") = 1

\* The message a request supplies, or the default when it supplies none.
SuppliedMessage(body) ==
    IF "commitMessage" \in DOMAIN body /\ body.commitMessage # ""
      THEN body.commitMessage
      ELSE "Update files via dashboard"

\* C12 as stated: the commit message is the caller's message, a blank line,
\* the User line, a blank line, and then the change-report lines, with nothing
\* else in between.
C12_MessageAsStated ==
    \A h \in Handlers :
       (Composed(h) /\ "commitMessage" \in DOMAIN hs[h].body) =>
          hs[h].fullCommitMessage =
             hs[h].body.commitMessage \o "\n" \o "\n" \o "User: " \o hs[h].anon
                \o "\n" \o "\n" \o JoinWith(hs[h].changeReports, "\n")

\* C12 amended: the commit message is, in this order, the caller's message
\* (the default 'Update files via dashboard' when there is none), a blank
\* line, the line 'User: <tag>', a blank line, the header line 'Changes:',
\* and then the change-report lines of all files, one per line; the commit
\* the call creates carries exactly this message.
C12_MessageComposition ==
    \A h \in Handlers :
       Composed(h) =>
          /\ hs[h].fullCommitMessage =
                SuppliedMessage(hs[h].body) \o "\n" \o "\n" \o "User: " \o hs[h].anon
                   \o "\n" \o "\n" \o "Changes:" \o "\n"
                   \o JoinWith(hs[h].changeReports, "\n")
          /\ Len(hs[h].changeReports) >= Len(hs[h].body.files.items)
          /\ hs[h].newCommitSha # 0 =>
                commits[hs[h].newCommitSha].message = hs[h].fullCommitMessage

\* C12 witness: the branch is at the commit of a call that added one entry
\* to locations.json, with the whole message spelled out.
C12_Witness ==
    \E h \in Handlers :
       /\ hs[h].pc = "done"
       /\ hs[h].resp.status = 200
       /\ branch = hs[h].resp.commitSha
       /\ commits[branch].message =
             "msg\n\nUser: a1b2c3d4e5f60718\n\nChanges:\n  - locations.json: 1 -> 2 entries\n    * Added 1 new entry"

\* The opaque tag users.json holds for a Discord id: u1 has one, u2 has a
\* record without one, u3 has no record.
ExpectedTag(id) == IF id = "u1" THEN "a1b2c3d4e5f60718" ELSE "unknown"

\* C13: the commit message does not reveal who acted.  For one request body
\* and the same old contents, the messages composed for two session users
\* with the same opaque tag are identical whatever their Discord ids and
\* usernames are, and the User line holds the opaque tag and nothing else:
\* the message is the supplied message, the User line with the tag, and the
\* changes block.
C13_MessageHidesIdentity ==
    probe.kind = "message" =>
       LET u == probe.users[1]
           v == probe.users[2]
       IN /\ ExpectedTag(u.id) = ExpectedTag(v.id) =>
                probe.messages[1] = probe.messages[2]
          /\ probe.messages[1] =
                SuppliedMessage(probe.body) \o "\n" \o "\n" \o "User: "
                   \o ExpectedTag(u.id) \o "\n" \o "\n" \o "Changes:" \o "\n"
                   \o JoinWith(probe.reports, "\n")

\* C13 witness: two users with different ids and usernames and the same tag
\* got the same message.
C13_Witness ==
    /\ probe.kind = "message"
    /\ probe.users[1].id = "u2" /\ probe.users[2].id = "u3"
    /\ probe.users[1].username # probe.users[2].username
    /\ probe.messages[1] = probe.messages[2]

\* The default the specification gives a file name.
ExpectedDefault(name) ==
    IF name \in {"locations.json", "times.json", "repeating-events.json", "live.json"}
      THEN [t |-> "array", items |-> <<>>]
      ELSE [t |-> "object", title |-> "", sections |-> <<>>]

\* C14: default-skeleton substitution.  For every file name, the content the
\* batch handler substitutes for an absent data/<name> and the content
\* GET /api/file/<name> answers for it are the same: the empty list for
\* locations.json, times.json, repeating-events.json and live.json, and
\* {title: '', sections: []} for every other name.
C14_SameDefaults ==
    probe.kind = "default" =>
       /\ probe.batch = ExpectedDefault(probe.name)
       /\ probe.file = ExpectedDefault(probe.name)
       /\ probe.batch = probe.file

\* C14 witness: both mappings applied to repeating-events.json gave the
\* empty list.
C14_Witness ==
    /\ probe.kind = "default"
    /\ probe.name = "repeating-events.json"
    /\ probe.batch = [t |-> "array", items |-> <<>>]
    /\ probe.file = [t |-> "array", items |-> <<>>]

\* What GET /api/file/:name has answered, against how the store answered.
C15_Answered ==
    fileCall.pc = "done" =>
       /\ fileCall.upstream = "absent" =>
             fileCall.resp = [status |-> 200, sha |-> <<>>,
                              content |-> ExpectedDefault(fileCall.name),
                              notFound |-> TRUE]
       /\ fileCall.upstream \in {"503", "502"} =>
             /\ ToString(fileCall.resp.status) = fileCall.upstream
             /\ fileCall.resp.error = "Failed to fetch file"
       /\ fileCall.upstream \in {"noanswer", "notjson"} =>
             /\ fileCall.resp.status = 500
             /\ fileCall.resp.error = "Failed to fetch file"
       /\ fileCall.upstream = "found" =>
             /\ fileCall.resp.status = 200
             /\ "notFound" \notin DOMAIN fileCall.resp

\* The step in which the client's load settles.
C15_Landing ==
    (load.pc = "awaiting" /\ load'.pc = "idle") =>
       IF fileCall.resp.status = 200
         THEN /\ \E i \in 1..Len(stateByFile') :
                    /\ stateByFile'[i].name = load.name
                    /\ "notFound" \in DOMAIN fileCall.resp =>
                          stateByFile'[i].content = fileCall.resp.content
                    /\ ~stateByFile'[i].dirty
              /\ load'.outcome = "loaded"
         ELSE /\ stateByFile' = stateByFile
              /\ \A i \in 1..Len(stateByFile') : stateByFile'[i].name # load.name
              /\ load'.outcome = "failed"

\* C15: GET /api/file/:name never surfaces NotFound as an error.  When the
\* store reports the file absent the answer is the success {sha: null,
\* content: <default skeleton>, notFound: true}, and the client creates a
\* clean entry with that content; every other failure of the fetch is
\* answered as an error, with the upstream status when the store answered and
\* 500 when it did not (or when the file is not JSON), and the client then
\* creates no entry for that file.
C15_NotFoundIsNotAnError == [][C15_Answered' /\ C15_Landing]_vars

\* C15 witness: the client has an entry for the absent live.json, holding
\* the empty list, and its load of about.json has failed and left no entry.
C15_Witness ==
    /\ \E i \in 1..Len(stateByFile) :
          /\ stateByFile[i].name = "live.json"
          /\ stateByFile[i].content = [t |-> "array", items |-> <<>>]
          /\ stateByFile[i].sha = <<>>
    /\ load.outcome = "failed"
    /\ load.name = "about.json"
    /\ \A i \in 1..Len(stateByFile) : stateByFile[i].name # "about.json"

\* The calls that ended in the catch block.
Caught(h) == hs[h].pc = "done" /\ hs[h].failedAt \notin {"none", "validate"}

\* C16 as stated: a failure with an upstream response is answered with the
\* upstream status and the upstream body as details; a failure without one
\* with 500 and the local error message.
C16_ErrorAsStated ==
    \A h \in Handlers :
       Caught(h) =>
          IF hs[h].err.response
            THEN /\ hs[h].resp.status = hs[h].err.status
                 /\ hs[h].resp.details = [body |-> hs[h].err.data]
            ELSE /\ hs[h].resp.status = 500
                 /\ hs[h].resp.details = [message |-> hs[h].err.message]

\* C16 amended: a failure with an upstream response is answered with the
\* upstream status, and with the upstream body as details when that body is
\* not empty, otherwise with {message: <the local error message>}; a failure
\* without an upstream response is answered 500 with {message: <the local
\* error message>}.  The answer is {error: 'Batch update failed', details}.
C16_ErrorCarriesUpstream ==
    \A h \in Handlers :
       Caught(h) =>
          /\ hs[h].resp.error = "Batch update failed"
          /\ IF hs[h].err.response
               THEN /\ hs[h].resp.status = hs[h].err.status
                    /\ hs[h].err.data # "" =>
                          hs[h].resp.details = [body |-> hs[h].err.data]
                    /\ hs[h].err.data = "" =>
                          hs[h].resp.details = [message |-> hs[h].err.message]
               ELSE /\ hs[h].resp.status = 500
                    /\ hs[h].resp.details = [message |-> hs[h].err.message]

\* C16 witness: a call whose commit creation was answered 502 with an empty
\* body has answered 502 with the local message.
C16_Witness ==
    \E h \in Handlers :
       /\ hs[h].pc = "done"
       /\ hs[h].failedAt = "commit"
       /\ hs[h].err.response /\ hs[h].err.status = 502 /\ hs[h].err.data = ""
       /\ hs[h].resp.status = 502
       /\ hs[h].resp.details = [message |-> "Request failed with status code 502"]

\* The file name of a drawn path.
ProbeFileName == probe.path[Len(probe.path)]

\* A value of a recognized shape: a list, or a document with a title and a
\* list of sections.
RecognizedShape(v) == v.t \in {"array", "object"}

\* C17: idempotent reporting.  For every value x of a recognized shape and
\* every path, generateChangeReport(x, x, path) does not throw and yields
\* exactly one line, the 'No changes detected' line of the file.
C17_IdempotentReport ==
    (probe.kind = "report" /\ probe.old = probe.new /\ RecognizedShape(probe.old)) =>
       /\ ~probe.raised
       /\ probe.lines = << "  - " \o ProbeFileName \o ": No changes detected" >>

\* C17 witness: a document with two sections compared with itself.
C17_Witness ==
    /\ probe.kind = "report"
    /\ probe.old = [t |-> "object", title |-> "T1", sections |-> <<"s1", "s2">>]
    /\ probe.new = probe.old
    /\ probe.lines = << "  - about.json: No changes detected" >>

\* 'entry' for one, 'entries' otherwise.
EntryWord(d) == IF d = 1 THEN "entry" ELSE "entries"

\* C18: length-delta reporting.  For an old list of length m and a new list
\* of length n # m the report is exactly two lines: '<file>: m -> n entries',
\* and 'Added n-m new entries' when n > m or 'Removed m-n entries' when n < m
\* ('entry' when the difference is 1); no modification count, whatever the
\* elements are.
C18_LengthDelta ==
    (/\ probe.kind = "report"
     /\ probe.old.t = "array" /\ probe.new.t = "array"
     /\ Len(probe.old.items) # Len(probe.new.items)) =>
       LET m == Len(probe.old.items)
           n == Len(probe.new.items)
       IN /\ ~probe.raised
          /\ Len(probe.lines) = 2
          /\ probe.lines[1] = "  - " \o ProbeFileName \o ": " \o ToString(m) \o " -> "
                                 \o ToString(n) \o " entries"
          /\ n > m => probe.lines[2] = "    * Added " \o ToString(n - m) \o " new "
                                          \o EntryWord(n - m)
          /\ n < m => probe.lines[2] = "    * Removed " \o ToString(m - n) \o " "
                                          \o EntryWord(m - n)

\* C18 witness: from the empty list to a list of two elements.
C18_Witness ==
    /\ probe.kind = "report"
    /\ probe.old = [t |-> "array", items |-> <<>>]
    /\ probe.new = [t |-> "array", items |-> <<"e1", "e2">>]
    /\ probe.path = <<"data", "locations.json">>
    /\ probe.lines = << "  - locations.json: 0 -> 2 entries",
                        "    * Added 2 new entries" >>

\* Whether two element texts are texts of structurally equal objects: e1r is
\* e1's object written with its keys in another order, and s1r is s1's.
StructurallyEqual(a, b) ==
    LET object(x) == IF x = "e1r" THEN "e1" ELSE IF x = "s1r" THEN "s1" ELSE x
    IN object(a) = object(b)

\* C19 as stated: for two lists of equal length the report is 'Modified k
\* entries' ('entry' for k = 1), k being the number of indices at which the
\* elements are not structurally equal, and 'No changes detected' for k = 0.
C19_StructuralCount ==
    (/\ probe.kind = "report"
     /\ probe.old.t = "array" /\ probe.new.t = "array"
     /\ Len(probe.old.items) = Len(probe.new.items)) =>
       LET k == Cardinality({i \in 1..Len(probe.old.items) :
                               ~StructurallyEqual(probe.old.items[i], probe.new.items[i])})
       IN /\ ~probe.raised
          /\ probe.lines =
                IF k = 0
                  THEN << "  - " \o ProbeFileName \o ": No changes detected" >>
                  ELSE << "  - " \o ProbeFileName \o ": Modified " \o ToString(k)
                             \o " " \o EntryWord(k) >>

\* C20 as stated: generateChangeReport never raises; for every pair of old
\* and new values it returns at least one line.
C20_ReportNeverRaises ==
    probe.kind = "report" => (~probe.raised /\ Len(probe.lines) >= 1)

\* Mixed or unrecognized shapes: a list against a document, or a value
\* that is neither a list nor a document.
MixedShapes(old, new) ==
    \/ old.t = "array" /\ new.t = "object"
    \/ old.t = "object" /\ new.t = "array"
    \/ ~RecognizedShape(old)
    \/ ~RecognizedShape(new)

\* C21 as stated: for mixed or unrecognized shapes generateChangeReport
\* returns exactly the generic line '<file>: Updated', never 'No changes
\* detected' and never a title or sections delta.
C21_GenericUpdated ==
    (probe.kind = "report" /\ MixedShapes(probe.old, probe.new)) =>
       /\ ~probe.raised
       /\ probe.lines = << "  - " \o ProbeFileName \o ": Updated" >>

\* The first lines a report of a file can have, by the file's name.
HeadLines ==
    [name \in {FileNameOf(p) : p \in Paths} |->
       { generateChangeReport(pr[1], pr[2], <<FILE_DIR, name>>)[1] :
           pr \in { q \in ProbeValues \X ProbeValues :
                      ~generateChangeReportThrows(q[1], q[2], <<FILE_DIR, name>>) } }]

\* Whether the lines hold, in the order of the names, a first line of a
\* report of every name.
ListsEveryFile(lines, names) ==
    \E at \in [1..Len(names) -> 1..Len(lines)] :
       /\ \A i \in 1..Len(names) : lines[at[i]] \in HeadLines[names[i]]
       /\ \A i, j \in 1..Len(names) : i < j => at[i] < at[j]

\* A call that has built its change report (and has not failed on the way).
Reported(h) == hs[h].pc \in {"blobs", "tree", "commit", "updateRef"}

\* C22: the change report of a batch holds at least one line for every file
\* of the request, in request order; a file whose content is unchanged is
\* reported as 'No changes detected', and it still gets its blob and its
\* entry in the new tree.
C22_EveryFileReported ==
    \A h \in Handlers :
       Reported(h) =>
          LET files == FilesOf(hs[h])
              olds == hs[h].oldContents
          IN /\ ListsEveryFile(hs[h].changeReports,
                               [i \in 1..Len(files) |-> FileNameOf(files[i].path)])
             /\ \A i \in 1..Len(files) :
                   (olds[i].content = files[i].content /\ RecognizedShape(files[i].content)) =>
                      \E k \in 1..Len(hs[h].changeReports) :
                         hs[h].changeReports[k] =
                            "  - " \o FileNameOf(files[i].path) \o ": No changes detected"
             /\ Cardinality({k \in 1..Len(hs[h].calls) : hs[h].calls[k] = "postBlob"})
                   = Len(files)
             /\ hs[h].pc \in {"commit", "updateRef"} =>
                   \A i \in 1..Len(files) :
                      hs[h].newTreeSha[files[i].path] = BlobSha(StringifyJson(files[i].content))

\* C22 witness: a request of two files, the first unchanged and the second
\* new, is committed; the report lists both and the tree holds both.
C22_Witness ==
    /\ hs["h1"].pc = "updateRef"
    /\ Len(FilesOf(hs["h1"])) = 2
    /\ hs["h1"].changeReports =
          << "  - locations.json: No changes detected",
             "  - live.json: 0 -> 1 entries",
             "    * Added 1 new entry" >>
    /\ hs["h1"].newTreeSha[LocationsPath] = BlobSha(StringifyJson(Arr(<<"e1">>)))
    /\ hs["h1"].newTreeSha[LivePath] = BlobSha(StringifyJson(Arr(<<"v1">>)))

\* The remote calls of a call of n files, in the order of the steps.
StepOrder(n) ==
    <<"getRef", "getCommit">> \o [i \in 1..n |-> "getContents"]
       \o [i \in 1..n |-> "postBlob"] \o <<"postTree", "postCommit", "patchRef">>

IsPrefix(a, b) == Len(a) <= Len(b) /\ a = SubSeq(b, 1, Len(a))

\* The remote calls a call has issued and that have not been answered yet.
InFlight(h) ==
    LET c == hs[h] IN
    CASE c.pc = "getRef" -> <<"getRef">>
      [] c.pc = "getCommit" -> <<"getCommit">>
      [] c.pc = "oldContents" -> [i \in 1..Len(FilesOf(c)) |-> "getContents"]
      [] c.pc = "blobs" -> [i \in 1..Cardinality({j \in 1..Len(c.blobs) : c.blobs[j] = NoFile})
                              |-> "postBlob"]
      [] c.pc = "tree" -> <<"postTree">>
      [] c.pc = "commit" -> <<"postCommit">>
      [] c.pc = "updateRef" -> <<"patchRef">>
      [] OTHER -> <<>>

\* The order of the steps, whatever overlaps: the calls issued are a prefix
\* of the step order, the tree is asked for only when every blob is there,
\* and a call that answers with a commit has issued the ref update last.
StepsInOrder(h) ==
    /\ hs[h].pc # "idle" /\ FilesProvided(hs[h].body) =>
          IsPrefix(hs[h].calls, StepOrder(Len(FilesOf(hs[h]))))
    /\ (\E k \in 1..Len(hs[h].calls) : hs[h].calls[k] = "postTree") =>
          \A i \in 1..Len(hs[h].blobs) : hs[h].blobs[i] # NoFile
    /\ hs[h].resp.status = 200 =>
          /\ hs[h].calls = StepOrder(Len(FilesOf(hs[h])))
          /\ hs[h].calls[Len(hs[h].calls)] = "patchRef"

\* C26 as stated: within one call the remote steps are strictly ordered, and
\* only blob creations of different files are in flight together.
C26_OnlyBlobsOverlap ==
    \A h \in Handlers :
       /\ StepsInOrder(h)
       /\ Len(InFlight(h)) > 1 => \A k \in 1..Len(InFlight(h)) : InFlight(h)[k] = "postBlob"

\* C26, amended: within one call the remote steps are strictly ordered: tip
\* read, commit read, old-content fetches, blob creations, tree creation,
\* commit creation, ref update; the old-content fetches of different files
\* overlap each other, and so may the blob creations of different files, and
\* nothing else overlaps; the tree creation is issued only after every blob
\* creation has succeeded, and the ref update is the last remote call.
C26_StepsOrdered ==
    \A h \in Handlers :
       /\ StepsInOrder(h)
       /\ Len(InFlight(h)) > 1 =>
             \/ \A k \in 1..Len(InFlight(h)) : InFlight(h)[k] = "postBlob"
             \/ \A k \in 1..Len(InFlight(h)) : InFlight(h)[k] = "getContents"

\* C26 witness: a call of two files has answered with its commit after the
\* nine remote calls of its steps.
C26_Witness ==
    /\ hs["h1"].pc = "done"
    /\ hs["h1"].resp.status = 200
    /\ hs["h1"].calls = <<"getRef", "getCommit", "getContents", "getContents",
                          "postBlob", "postBlob", "postTree", "postCommit", "patchRef">>

\* C27: every commit a batch call creates has exactly one parent, the tip
\* the call read in its first step (latestCommitSha), whatever the branch
\* points to when the commit is created; and when the ref update succeeds,
\* that parent is the commit the branch pointed to just before the update.
C27_SoleParentIsReadTip ==
    /\ \A h \in Handlers :
          hs[h].newCommitSha # 0 =>
             commits[hs[h].newCommitSha].parents = <<hs[h].latestCommitSha>>
    /\ \A i \in 1..Len(refLog) :
          refLog[i].by.kind = "batch" =>
             /\ commits[refLog[i].to].parents = <<refLog[i].tip>>
             /\ refLog[i].ok => refLog[i].from = refLog[i].tip

\* C27 witness: after an outside push, a batch call read the tip (commit 2),
\* committed on it and moved the branch from 2 to its commit.
C27_Witness ==
    /\ Len(refLog) = 2
    /\ refLog[1].by.kind = "external"
    /\ refLog[2].by.kind = "batch" /\ refLog[2].ok
    /\ refLog[2].tip = 2 /\ refLog[2].from = 2
    /\ commits[refLog[2].to].parents = <<2>>
    /\ branch = refLog[2].to

\* C28 as stated: for two documents the report is one comma-joined line that
\* holds 'title' iff the titles differ, 'a -> b sections' iff the section
\* counts a and b differ, and otherwise 'k modified sections' ('section' for
\* k = 1) iff k > 0 sections are not structurally equal at the same index; it
\* is 'No changes detected' iff none of these applies.
C28_DocumentFindings ==
    (probe.kind = "report" /\ probe.old.t = "object" /\ probe.new.t = "object") =>
       LET a == Len(probe.old.sections)
           b == Len(probe.new.sections)
           k == Cardinality({i \in 1..a : i <= b /\
                   ~StructurallyEqual(probe.old.sections[i], probe.new.sections[i])})
           title == IF probe.old.title # probe.new.title THEN <<"title">> ELSE <<>>
           count == IF a # b
                      THEN << ToString(a) \o " -> " \o ToString(b) \o " sections" >>
                      ELSE <<>>
           modified == IF a = b /\ k > 0
                         THEN << ToString(k) \o " modified "
                                   \o (IF k = 1 THEN "section" ELSE "sections") >>
                         ELSE <<>>
           findings == title \o count \o modified
       IN /\ ~probe.raised
          /\ probe.lines =
                IF Len(findings) = 0
                  THEN << "  - " \o ProbeFileName \o ": No changes detected" >>
                  ELSE << "  - " \o ProbeFileName \o ": " \o JoinWith(findings, ", ") >>

\* The ids of the locations of a buffer.
LocationIds(buffer) ==
    {IdOfLocation(ListOf(buffer, "locations.json")[i]) :
        i \in 1..Len(ListOf(buffer, "locations.json"))}

\* C24 as stated: whenever a location is removed through any editor (the
\* dashboard or the locations.json file editor), the resulting buffer holds
\* no time, no schedule and no live entry that refers to the removed id.
C24_CascadingDeletion ==
    [][\A id \in LocationIds(stateByFile) \ LocationIds(stateByFile') :
          \A f \in DependentFiles :
             \A i \in 1..Len(ListOf(stateByFile', f)) :
                LocationIdOf(ListOf(stateByFile', f)[i]) # id]_vars

\* The blob of about.json at the branch tip: the revision marker the store
\* requires for the next update of the file.
RequiredMarker == commits[branch].tree[AboutPath]

\* The last save succeeded and the branch still points to its commit.
SavedAndUntouched ==
    /\ aboutEditor.pc = "ready"
    /\ Len(aboutEditor.saves) > 0
    /\ aboutEditor.saves[Len(aboutEditor.saves)].status = 200
    /\ branch = aboutEditor.saves[Len(aboutEditor.saves)].commit

\* C30 as stated: after a successful save of about.json through AboutEditor
\* the component holds the revision marker the store requires for the next
\* update, and a second save with no remote change in between does not fail
\* with a revision conflict.
C30_SecondSaveSucceeds ==
    /\ SavedAndUntouched => aboutEditor.sha = RequiredMarker
    /\ \A i \in 2..Len(aboutEditor.saves) :
          (aboutEditor.saves[i - 1].status = 200
             /\ commits[branch].tree[AboutPath] = commits[aboutEditor.saves[i - 1].commit].tree[AboutPath])
          => aboutEditor.saves[i].status # 409

\* What a fresh fetch of a file at a revision marker returns: the content of
\* the blob the marker names, or the default skeleton for no marker.
FreshFetchAt(name, sha) ==
    IF sha = NoFile THEN FileDefault(name)
    ELSE IF ParseJson(BlobText(sha)).ok THEN ParseJson(BlobText(sha)).value
    ELSE Null

\* C23 as stated: in every reachable client state, a file whose dirty flag is
\* false has the content a fresh fetch of its path at its stored revision
\* marker returns.
C23_CleanMatchesMarker ==
    \A i \in 1..Len(stateByFile) :
       ~stateByFile[i].dirty =>
          stateByFile[i].content = FreshFetchAt(stateByFile[i].name, stateByFile[i].sha)

\* The entry of about.json in the buffer.
AboutEntry == EntryOf(stateByFile, "about.json")

\* C25: last write wins at the file level.  The batch call of a push compares
\* no revision marker of a file: it fails only with an upstream failure, or
\* with the conflict of a branch that moved during the call; and when it
\* succeeds, the branch was moved to a commit that holds the client's content
\* of every pushed file, whatever the file held remotely.
C25_LastWriteWins ==
    LET c == hs["h1"] IN
    c.pc = "done" =>
       /\ c.resp.status = 422 => c.latestCommitSha # branch
       /\ c.resp.status \notin {200, 422} => c.err \in UpstreamFailures
       /\ c.resp.status = 200 =>
             /\ \E i \in 1..Len(refLog) : refLog[i].ok /\ refLog[i].to = c.resp.commitSha
             /\ \A i \in 1..Len(FilesOf(c)) :
                   commits[c.resp.commitSha].tree[FilesOf(c)[i].path]
                      = BlobSha(StringifyJson(FilesOf(c)[i].content))

\* C25 witness: the client loaded about.json, another writer then changed
\* it, and the client's push of its own edit succeeded: the client's marker
\* is not the blob the call found, and the branch holds the client's content.
C25_Witness ==
    LET c == hs["h1"] IN
    /\ c.pc = "done"
    /\ c.resp.status = 200
    /\ HasEntry(stateByFile, "about.json")
    /\ AboutEntry.sha = BlobSha(StringifyJson(Doc("T1", <<"s1">>)))
    /\ c.baseTreeSha[AboutPath] = BlobSha(StringifyJson(Doc("TX", <<"s1">>)))
    /\ AboutEntry.content = Doc("T2", <<"s1">>)
    /\ branch = c.resp.commitSha
    /\ commits[branch].tree[AboutPath] = BlobSha(StringifyJson(Doc("T2", <<"s1">>)))

\* C29 as stated: the response of a fetch is never applied to a path whose
\* buffer entry was created or mutated while the fetch was in flight.
C29_NeverClobbers ==
    [][ui'.last.op = "land" =>
          ui.fetches[ui'.last.effect].touched \cap ui'.last.applied = {}]_vars


\* C31: no landed commit is ever lost.  Every commit a ref update was
\* accepted for, and every commit a batch call answered success with, is the
\* branch tip or an ancestor of it; and the history of the tip is a single
\* chain (every commit of it has at most one parent).
C31_NoLandedCommitLost ==
    LET history == AncestorsOrSelf(commits, branch) IN
    /\ \A i \in 1..Len(refLog) : refLog[i].ok => refLog[i].to \in history
    /\ \A h \in Handlers :
          (hs[h].pc = "done" /\ hs[h].resp.status = 200) =>
             hs[h].resp.commitSha \in history
    /\ \A c \in history : Len(commits[c].parents) <= 1

\* C31 witness: a batch call has answered success, another writer has moved
\* the branch since, and the call's commit is a strict ancestor of the tip.
C31_Witness ==
    \E h \in Handlers :
       /\ hs[h].pc = "done"
       /\ hs[h].resp.status = 200
       /\ hs[h].resp.commitSha # branch
       /\ hs[h].resp.commitSha \in AncestorsOrSelf(commits, branch)
       /\ \E g \in Handlers \ {h} : hs[g].pc = "done" /\ hs[g].resp.status = 200
                                     /\ hs[g].resp.commitSha = branch

\* C32 as stated: a file becomes dirty only after its remote content has
\* been loaded into the buffer: no step makes an entry dirty for a name that
\* had no entry before the step.
C32_DirtyOnlyAfterLoad ==
    [][\A i \in 1..Len(stateByFile') :
          stateByFile'[i].dirty => HasEntry(stateByFile, stateByFile'[i].name)]_vars

\* The payload of the push in flight carries this content for this file.
InPayload(payload, name, content) ==
    \E k \in 1..Len(payload) :
       payload[k].path = <<FILE_DIR, name>> /\ payload[k].content = content

\* C33 as stated: an edit made while a push is in flight is not lost.  When
\* the push succeeds, every dirty entry whose content is not what the payload
\* carries for it (it was edited, or first became dirty, after the payload
\* was collected) is still dirty.
C33_EditDuringPushKept ==
    [][(push.pc = "awaiting" /\ push'.pc = "idle" /\ push'.outcome = "ok") =>
          \A i \in 1..Len(stateByFile) :
             (/\ stateByFile[i].dirty
              /\ ~InPayload(push.payload, stateByFile[i].name, stateByFile[i].content))
             => /\ i <= Len(stateByFile')
                /\ stateByFile'[i].dirty]_vars

\* C34: at most one push is in flight, and the pushing flag returns to false.
\* The flag is set exactly while the post of a push is awaited, a push
\* starts only while the flag is not set (the button is disabled otherwise),
\* and whenever the flag is set it is eventually cleared, however the
\* attempt ends.
C34_OnePushAndFlagClears ==
    /\ [](pushing <=> push.pc = "awaiting")
    /\ [][nPushes' # nPushes => ~pushing]_vars
    /\ (pushing ~> ~pushing)

\* C34 witness: two attempts have ended, the last one with a failure, and
\* the flag is not set.
C34_Witness ==
    /\ nPushes = 2
    /\ push.pc = "idle"
    /\ push.outcome = "failed"
    /\ ~pushing

\* The files the view and the selected file need.
NeededFiles(view, selected) ==
    {selected}
    \cup (IF selected \in DependentFiles THEN {"locations.json"} ELSE {})
    \cup (IF selected = "live.json" THEN {"times.json"} ELSE {})
    \cup (IF view \in {"locations", "content"}
            THEN {"locations.json", "times.json", "live.json"} ELSE {})
    \cup (IF view = "content" THEN {"about.json"} ELSE {})

\* Every needed file has an entry, no effect is due and no fetch is in flight.
LoadingDone ==
    /\ ui.changed = {}
    /\ \A e \in Effects : ~ui.fetches[e].live
    /\ \A n \in NeededFiles(ui.view, ui.selected) : HasEntry(stateByFile, n)

\* C35: loading terminates.  When every fetch is answered and the user has
\* stopped clicking, from some time on every file the view needs has an
\* entry, no fetch is in flight and none is started.
C35_LoadingTerminates == <>[]LoadingDone

\* C35 witness: in the Files view with live.json selected, the three load
\* effects have fetched live.json, locations.json and times.json in this
\* order, each landing restarting the fetches still in flight, and loading
\* is done.
C35_Witness ==
    /\ LoadingDone
    /\ ui.view = "files"
    /\ ui.selected = "live.json"
    /\ Len(stateByFile) = 3
    /\ stateByFile[1].name = "live.json"
    /\ stateByFile[2].name = "locations.json"
    /\ stateByFile[3].name = "times.json"
    /\ \A i \in 1..Len(stateByFile) : ~stateByFile[i].dirty

\* C36 as stated: only users on the allowlist can advance the branch.  A
\* batch request of a user who has no record in users.json at that time is
\* rejected when it arrives (401 or 403), so it performs no ref update.
C36_OnlyAllowlisted ==
    [][\A h \in Handlers :
          (hs[h].pc = "idle" /\ hs'[h].pc # "idle" /\ ~Listed(auth.users, hs'[h].user))
          => /\ hs'[h].pc = "done"
             /\ hs'[h].resp.status \in {401, 403}]_vars

\* C37 as stated: a user's anonymized tag is stable.  A user who has an
\* anonHash and stays on the allowlist keeps that anonHash in every step.
C37_AnonHashStable ==
    [][\A id \in UserIds :
          (/\ Listed(auth.users, id)
           /\ RecordOf(auth.users, id).anonHash # ""
           /\ Listed(auth'.users, id))
          => RecordOf(auth'.users, id).anonHash = RecordOf(auth.users, id).anonHash]_vars

\* The non-empty ids of the buffer are pairwise distinct.
NonEmptyIdsDistinct ==
    \A i, j \in 1..Len(locs.value) :
        (i # j /\ locs.value[i].id # <<>>) => locs.value[i].id # locs.value[j].id

\* The id generated from a location and a venue that both slugify to the
\* empty text is the empty id.
EmptySlugsGiveEmptyId ==
    \A i \in 1..Len(locs.generated) :
        (slugify(locs.generated[i].location) = <<>> /\ slugify(locs.generated[i].venue) = <<>>)
            => locs.generated[i].id = <<>>

\* C38: location ids stay unique.  From a locations list whose non-empty ids
\* are pairwise distinct, after any sequence of add, update, create-and-select,
\* save and remove operations of the editors, the non-empty ids of the buffer
\* are pairwise distinct, and an id generated from a location and a venue that
\* both slugify to the empty text is the empty id.
C38_IdsStayUnique == NonEmptyIdsDistinct /\ EmptySlugsGiveEmptyId

\* C39: polling stops on unmount.  Once the cleanup of a mount's effect has
\* run, that effect has no timeout scheduled and issues no further GET of
\* /api/actions/latest, also when the cleanup ran while its GET was in flight.
C39_PollingStopsOnUnmount ==
    [][\A i \in 1..Len(polling.effects) :
          /\ polling'.effects[i].cancelled => ~polling'.effects[i].timer
          /\ (polling.effects[i].cancelled /\ polling'.effects[i].request)
                => polling.effects[i].request]_vars
=============================================================================
